---- MODULE Spec2Model ----
(***************************************************************************)
(* A model of the phew-read reading app: the SQLite-backed DatabaseService, *)
(* the SubscriptionService, the AIService and TTSService entitlement gates  *)
(* and the reader screen's page navigation.                                 *)
(*                                                                          *)
(* Time is counted in days (the clock `now`); ISO timestamps are the day    *)
(* they denote.  A nullable SQL column or an optional JS value is a         *)
(* sequence of length 0 (NULL / undefined) or 1.  A JSON text column is the *)
(* record [json |-> value].  A call that throws yields Throw(message), a    *)
(* call that returns yields Return(value).                                  *)
(***************************************************************************)
EXTENDS Integers, Sequences, FiniteSets, TLC

VARIABLES
    \* --- the SQLite file (survives a restart of the app) ---
    tables,            \* names of the tables that exist
    categories,        \* rows of table categories
    books,             \* rows of table books
    userSubscription,  \* rows of table userSubscription
    settings,          \* rows of table settings
    files,             \* book id -> number of tokens of content.split(/\s+/) of its file
    \* --- DatabaseService ---
    db,                \* this.db: "null" or "open"
    initPc,            \* position of a running init(): "idle" when none runs
    initIdx,           \* index of the next statement / default category of init()
    initCompleted,     \* an init() of this process has resolved
    now,               \* the wall clock (Date.now())
    \* --- one updateSubscription call in flight (upgrade / cancel) ---
    updPc, updPartial, updCurrent,
    \* --- one updateSettings call in flight ---
    setPc, setPartial, setCurrent,
    \* --- the last store accessor call made by a screen ---
    lastGet,
    \* --- AIService.askQuestion ---
    aiPc, aiSub, aiResult, fetchCalls, apiKey,
    \* --- TTSService and the speech engine ---
    ttsPc, ttsNatural, ttsSub, ttsResult, isSpeaking, engine, platform,
    \* --- the reader screen (one open session) ---
    rdrBook, currentPage, totalPages, rdrPc, rdrPage, markCalls,
    \* --- toggleBookFavorite calls in flight, per caller ---
    favPc, favId, favRead,
    \* --- a call of a function of the app: its arguments and what it returned ---
    callInput, callOutput,
    \* --- the chat history ---
    chatHistory,       \* rows of table chatHistory
    askCalls,          \* the askAI calls of reader screens, per caller
    \* --- a second updateSubscription call in flight ---
    upd2Pc, upd2Partial, upd2Current,
    \* --- DatabaseProvider: its effect, the effect's `mounted`, its two states ---
    provPc, mounted, isReady, error,
    \* --- a TTSService.stop() call in flight ---
    stopPc

storageVars == <<tables, categories, books, userSubscription, settings, files>>
initVars    == <<db, initPc, initIdx, initCompleted>>
updVars     == <<updPc, updPartial, updCurrent>>
setVars     == <<setPc, setPartial, setCurrent>>
aiVars      == <<aiPc, aiSub, aiResult, fetchCalls, apiKey>>
ttsVars     == <<ttsPc, ttsNatural, ttsSub, ttsResult, isSpeaking, engine, platform>>
rdrVars     == <<rdrBook, currentPage, totalPages, rdrPc, rdrPage, markCalls>>
favVars     == <<favPc, favId, favRead>>
callVars    == <<callInput, callOutput>>
chatVars    == <<chatHistory, askCalls>>
upd2Vars    == <<upd2Pc, upd2Partial, upd2Current>>
provVars    == <<provPc, mounted, isReady, error>>
moreVars    == <<chatVars, upd2Vars, provVars, stopPc>>
vars == <<storageVars, initVars, now, updVars, setVars, lastGet, aiVars, ttsVars, rdrVars,
          favVars, callVars, moreVars>>

----------------------------------------------------------------------------
(* Bounds of the model *)

MaxTime == 1          \* the clock runs from 0 to MaxTime
MaxFetch == 2         \* at most this many fetch calls are counted
MaxMarks == 2         \* at most this many markBookCompleted calls are counted
MaxStoredPages == 1   \* createBook is given totalPages in 0..MaxStoredPages
MaxUtterances == 2    \* at most this many utterances are queued in the speech engine
MaxAnswerTime == 2    \* the answer to an AI request arrives by this reading of the clock

(* Program constants *)

ExpiryDays == 30      \* 30 * 24 * 60 * 60 * 1000 ms
WordsPerPage == 400

----------------------------------------------------------------------------
(* Values *)

None == <<>>
Some(v) == <<v>>
IsSome(o) == Len(o) = 1
Get(o) == o[1]

Throw(msg) == [threw |-> TRUE, error |-> msg]
Return(v) == [threw |-> FALSE, value |-> v]

NotInitialized == "Database not initialized"
SqlError == "SQL error"
AISubscriptionRequired == "AI features require a paid subscription"
AINotConfigured == "AI service not configured"
AIRequestFailed == "AI request failed"
TTSSubscriptionRequired == "Natural TTS requires a paid subscription"

(* JSON.stringify / JSON.parse of an array of strings.  A JSON text is the sequence
   of its tokens: the brackets, the commas and the string literals; a literal is
   kept whole, with the string it denotes. *)
JsonToken(t, v) == [t |-> t, v |-> v]

JSONstringify(v) ==
    LET n    == Len(v)
        last == IF n = 0 THEN 2 ELSE 2 * n + 1
    IN  [k \in 1..last |->
            IF k = 1 THEN JsonToken("[", "")
            ELSE IF k = last THEN JsonToken("]", "")
            ELSE IF k % 2 = 0 THEN JsonToken("str", v[k \div 2])
            ELSE JsonToken(",", "")]

(* what JSON.parse gives for a text that is not a JSON array of strings *)
SyntaxError == <<"SyntaxError: Unexpected token">>

RECURSIVE ParseElements(_, _, _)
(* the elements from token k on, k being where a literal is expected *)
ParseElements(text, k, acc) ==
    IF k > Len(text) \/ text[k].t # "str" THEN SyntaxError
    ELSE IF k + 1 = Len(text) /\ text[k + 1].t = "]" THEN Append(acc, text[k].v)
    ELSE IF k + 1 < Len(text) /\ text[k + 1].t = ","
         THEN ParseElements(text, k + 2, Append(acc, text[k].v))
    ELSE SyntaxError

(* a parse that stops after the first element *)
JSONparseFirstOnly(text) ==
    IF Len(text) > 2 THEN <<text[2].v>> ELSE <<>>

JSONparse(text) ==
    IF Len(text) < 2 \/ text[1].t # "[" THEN SyntaxError
    ELSE IF Len(text) = 2 /\ text[2].t = "]" THEN <<>>
    ELSE ParseElements(text, 2, <<>>)

(* value || []  and  text ? JSON.parse(text) : [] *)
OrEmpty(value) == IF IsSome(value) THEN Get(value) ELSE <<>>
ParseOrEmpty(text) == IF Len(text) = 0 THEN <<>> ELSE JSONparse(text)

(* A boolean bound to an INTEGER column, and Boolean(column) on reading *)
BoolToInt(b) == IF b THEN 1 ELSE 0
Boolean(i) == i # 0

(* the current record, with nothing of the partial applied *)
MergeKeepsCurrent(current, partial) == current

(* { ...current, ...partial } *)
Merge(current, partial) ==
    [f \in (DOMAIN current) \cup (DOMAIN partial) |->
        IF f \in DOMAIN partial THEN partial[f] ELSE current[f]]

----------------------------------------------------------------------------
(* The schema and the default rows *)

TableOrder ==
    <<"categories", "books", "notes", "chatHistory", "userSubscription", "settings">>

DefaultCategories ==
    << [id |-> "1", name |-> "Finance",    icon |-> "DollarSign",  color |-> "#10B981"],
       [id |-> "2", name |-> "Leisure",    icon |-> "Coffee",      color |-> "#F59E0B"],
       [id |-> "3", name |-> "Discipline", icon |-> "Target",      color |-> "#EF4444"],
       [id |-> "4", name |-> "Read",       icon |-> "CheckCircle", color |-> "#8B5CF6"],
       [id |-> "5", name |-> "Favorites",  icon |-> "Heart",       color |-> "#EC4899"] >>

CategoryRow(c, t) ==
    [id |-> c.id, name |-> c.name, icon |-> c.icon, color |-> c.color,
     createdAt |-> t, updatedAt |-> t]

DefaultSubscriptionRow(t) ==
    [id |-> "1", tier |-> "free", price |-> 0,
     features |-> JSONstringify(<<"Basic reading", "Notes", "Basic TTS">>),
     booksPerMonth |-> 0, hasAI |-> 0, hasNaturalTTS |-> 0,
     expiresAt |-> None, createdAt |-> t]

DefaultSettingsRow ==
    [id |-> "1", ttsMode |-> "offline", ttsVoice |-> "robotic",
     fontSize |-> "medium", theme |-> "light", autoSync |-> 0]

ReadCategoryId == "4"

(* SubscriptionService.tiers *)
Tiers ==
    << [id |-> "free", price |-> 0, booksPerMonth |-> 0, hasAI |-> FALSE, hasNaturalTTS |-> FALSE,
        features |-> <<"Basic reading", "Notes", "Basic TTS (robotic)", "Local files only">>],
       [id |-> "basic", price |-> 5, booksPerMonth |-> 1, hasAI |-> TRUE, hasNaturalTTS |-> TRUE,
        features |-> <<"Everything in Free", "AI explanations", "1 free book/month", "Natural TTS">>],
       [id |-> "premium", price |-> 8, booksPerMonth |-> 2, hasAI |-> TRUE, hasNaturalTTS |-> TRUE,
        features |-> <<"Everything in Basic", "2 free books/month", "Priority AI responses",
                       "Advanced search">>],
       [id |-> "pro", price |-> 10, booksPerMonth |-> 5, hasAI |-> TRUE, hasNaturalTTS |-> TRUE,
        features |-> <<"Everything in Premium", "5 free books/month", "Unlimited AI chat",
                       "Early access features">>] >>

PaidTierIds == {"basic", "premium", "pro"}

(* this.tiers.find(t => t.id === tierId) *)
FindTier(tierId) ==
    LET hits == {i \in 1..Len(Tiers) : Tiers[i].id = tierId}
    IN  IF hits = {} THEN None
        ELSE Some(Tiers[CHOOSE i \in hits : \A j \in hits : i <= j])

----------------------------------------------------------------------------
(* SQL statements *)

RowsWithId(table, id) == {r \in table : r.id = id}

(* INSERT OR REPLACE INTO table ...: a row with the same primary key is overwritten *)
InsertOrReplace(table, row) ==
    {r \in table : r.id # row.id} \cup {row}

(* A plain INSERT on a table without a primary key: the row is always added *)
InsertDuplicate(table, row) ==
    table \cup {row}

(* INSERT OR IGNORE INTO table ...: the row is dropped when its primary key exists *)
InsertOrIgnore(table, row) ==
    IF RowsWithId(table, row.id) # {} THEN table ELSE table \cup {row}

(* SELECT * FROM table WHERE id = ? (getFirstAsync): the row, or null *)
GetFirst(table, id) ==
    IF RowsWithId(table, id) = {} THEN None
    ELSE Some(CHOOSE r \in RowsWithId(table, id) : TRUE)

(* UPDATE userSubscription SET tier = ?, price = ?, features = ?, booksPerMonth = ?,
   hasAI = ?, hasNaturalTTS = ?, expiresAt = ? WHERE id = '1' *)
SqlUpdateSubscription(table, updated) ==
    { IF r.id = "1"
      THEN [r EXCEPT !.tier = updated.tier,
                     !.price = updated.price,
                     !.features = JSONstringify(updated.features),
                     !.booksPerMonth = updated.booksPerMonth,
                     !.hasAI = BoolToInt(updated.hasAI),
                     !.hasNaturalTTS = BoolToInt(updated.hasNaturalTTS),
                     !.expiresAt = updated.expiresAt]
      ELSE r : r \in table }

(* UPDATE settings SET ttsMode = ?, ttsVoice = ?, fontSize = ?, theme = ?, autoSync = ?
   WHERE id = '1' *)
SqlUpdateSettings(table, updated) ==
    { IF r.id = "1"
      THEN [r EXCEPT !.ttsMode = updated.ttsMode,
                     !.ttsVoice = updated.ttsVoice,
                     !.fontSize = updated.fontSize,
                     !.theme = updated.theme,
                     !.autoSync = BoolToInt(updated.autoSync)]
      ELSE r : r \in table }

----------------------------------------------------------------------------
(* DatabaseService: the accessors, as the value a call made in this state yields *)

(* if (!this.db) throw new Error('Database not initialized') *)
DbGuardFails == db = "null"

DecodeSubscription(row) ==
    [row EXCEPT !.features = JSONparse(@),
                !.hasAI = Boolean(@),
                !.hasNaturalTTS = Boolean(@)]

getUserSubscription ==
    IF DbGuardFails THEN Throw(NotInitialized)
    ELSE IF "userSubscription" \notin tables THEN Throw(SqlError)
    ELSE LET result == GetFirst(userSubscription, "1")
         IN  IF ~IsSome(result) THEN Return(None)
             ELSE Return(Some(DecodeSubscription(Get(result))))

DecodeSettings(row) == [row EXCEPT !.autoSync = Boolean(@)]

getSettings ==
    IF DbGuardFails THEN Throw(NotInitialized)
    ELSE IF "settings" \notin tables THEN Throw(SqlError)
    ELSE LET result == GetFirst(settings, "1")
         IN  IF ~IsSome(result) THEN Return(None)
             ELSE Return(Some(DecodeSettings(Get(result))))

(* SubscriptionService.getCurrentSubscription *)
getCurrentSubscription == getUserSubscription

----------------------------------------------------------------------------
(* DatabaseService.init: every await is a step *)

InitIdle == initPc = "idle"

(* init() is called: openDatabaseAsync is pending *)
InitCall ==
    /\ InitIdle
    /\ initPc' = "opening"
    /\ UNCHANGED <<db, initIdx, initCompleted>>
    /\ UNCHANGED <<storageVars, now, updVars, setVars, lastGet, callVars, aiVars, ttsVars, rdrVars, favVars,
            moreVars>>

(* DatabaseProvider's effect: db.init() is called once, when the provider mounts *)
ProviderInit ==
    /\ ~initCompleted
    /\ InitCall

(* a state is set whether or not the effect was cleaned up *)
SetEvenIfUnmounted(isMounted, value, state) == value

(* if (mounted) setState(value): the state after it *)
SetIfMounted(isMounted, value, state) == IF isMounted THEN value ELSE state

(* DatabaseProvider mounts: isReady = false and error = null from useState, and
   the effect sets mounted = true and calls db.init() *)
ProviderMount ==
    /\ provPc = "new"
    /\ provPc' = "pending"
    /\ mounted' = TRUE
    /\ isReady' = FALSE /\ error' = None
    /\ InitIdle
    /\ initPc' = "opening"
    /\ UNCHANGED <<db, initIdx, initCompleted>>
    /\ UNCHANGED <<chatVars, upd2Vars, stopPc>>
    /\ UNCHANGED <<storageVars, now, updVars, setVars, lastGet, callVars, aiVars, ttsVars,
                   rdrVars, favVars>>

(* the effect's cleanup, when the provider unmounts: mounted = false *)
ProviderUnmount ==
    /\ mounted
    /\ mounted' = FALSE
    /\ UNCHANGED <<provPc, isReady, error>>
    /\ UNCHANGED <<chatVars, upd2Vars, stopPc>>
    /\ UNCHANGED <<storageVars, initVars, now, updVars, setVars, lastGet, callVars, aiVars,
                   ttsVars, rdrVars, favVars>>

(* the effect after await db.init(): init() has resolved (if (mounted)
   setIsReady(true)) or rejected (catch: if (mounted) setError(message)) *)
ProviderSettled ==
    /\ provPc = "pending"
    /\ InitIdle
    /\ provPc' = "settled"
    /\ IF initCompleted
       THEN /\ isReady' = SetIfMounted(mounted, TRUE, isReady)
            /\ UNCHANGED error
       ELSE /\ error' = SetIfMounted(mounted, Some(SqlError), error)
            /\ UNCHANGED isReady
    /\ UNCHANGED mounted
    /\ UNCHANGED <<chatVars, upd2Vars, stopPc>>
    /\ UNCHANGED <<storageVars, initVars, now, updVars, setVars, lastGet, callVars, aiVars,
                   ttsVars, rdrVars, favVars>>

(* this.db = await SQLite.openDatabaseAsync(...); createTables begins *)
InitOpened ==
    /\ initPc = "opening"
    /\ db' = "open"
    /\ initPc' = "tables"
    /\ initIdx' = 1
    /\ UNCHANGED initCompleted
    /\ UNCHANGED <<storageVars, now, updVars, setVars, lastGet, callVars, aiVars, ttsVars, rdrVars, favVars,
            moreVars>>

(* one CREATE TABLE IF NOT EXISTS of createTables *)
InitCreateTable ==
    /\ initPc = "tables"
    /\ tables' = tables \cup {TableOrder[initIdx]}
    /\ IF initIdx < Len(TableOrder)
       THEN initIdx' = initIdx + 1 /\ initPc' = "tables"
       ELSE initIdx' = 1 /\ initPc' = "categories"
    /\ UNCHANGED <<db, initCompleted>>
    /\ UNCHANGED <<categories, books, userSubscription, settings, files>>
    /\ UNCHANGED <<now, updVars, setVars, lastGet, callVars, aiVars, ttsVars, rdrVars, favVars, moreVars>>

(* one INSERT OR IGNORE of the default categories loop of createDefaultData *)
InitSeedCategory ==
    /\ initPc = "categories"
    /\ categories' = InsertOrIgnore(categories, CategoryRow(DefaultCategories[initIdx], now))
    /\ IF initIdx < Len(DefaultCategories)
       THEN initIdx' = initIdx + 1 /\ initPc' = "categories"
       ELSE initIdx' = 1 /\ initPc' = "subscription"
    /\ UNCHANGED <<db, initCompleted>>
    /\ UNCHANGED <<tables, books, userSubscription, settings, files>>
    /\ UNCHANGED <<now, updVars, setVars, lastGet, callVars, aiVars, ttsVars, rdrVars, favVars, moreVars>>

(* INSERT OR IGNORE of the free-tier subscription *)
InitSeedSubscription ==
    /\ initPc = "subscription"
    /\ userSubscription' = InsertOrIgnore(userSubscription, DefaultSubscriptionRow(now))
    /\ initPc' = "settings"
    /\ UNCHANGED <<db, initIdx, initCompleted>>
    /\ UNCHANGED <<tables, categories, books, settings, files>>
    /\ UNCHANGED <<now, updVars, setVars, lastGet, callVars, aiVars, ttsVars, rdrVars, favVars, moreVars>>

(* INSERT OR IGNORE of the default settings; init() resolves *)
InitSeedSettings ==
    /\ initPc = "settings"
    /\ settings' = InsertOrIgnore(settings, DefaultSettingsRow)
    /\ initPc' = "idle"
    /\ initCompleted' = TRUE
    /\ UNCHANGED <<db, initIdx>>
    /\ UNCHANGED <<tables, categories, books, userSubscription, files>>
    /\ UNCHANGED <<now, updVars, setVars, lastGet, callVars, aiVars, ttsVars, rdrVars, favVars, moreVars>>

(* the pending statement of init() rejects: init() rejects, this.db stays as it is *)
InitFails ==
    /\ ~InitIdle
    /\ initPc' = "idle"
    /\ UNCHANGED <<db, initIdx, initCompleted>>
    /\ UNCHANGED <<storageVars, now, updVars, setVars, lastGet, callVars, aiVars, ttsVars, rdrVars, favVars,
            moreVars>>

(* the wall clock advances *)
Tick ==
    /\ now < MaxTime
    /\ now' = now + 1
    /\ UNCHANGED <<storageVars, initVars, updVars, setVars, lastGet, callVars, aiVars, ttsVars, rdrVars, favVars,
            moreVars>>

(* the wall clock passes the stored expiresAt (of an upgrade made by MaxTime) *)
ExpiryPasses ==
    \E r \in userSubscription :
        /\ IsSome(r.expiresAt)
        /\ Get(r.expiresAt) <= MaxTime + ExpiryDays
        /\ now <= Get(r.expiresAt)
        /\ now' = Get(r.expiresAt) + 1
        /\ UNCHANGED <<storageVars, initVars, updVars, setVars, lastGet, callVars, aiVars,
                       ttsVars, rdrVars, favVars, moreVars>>

----------------------------------------------------------------------------
(* An accessor of the exported db is called at any moment.  The screens
   SubscriptionScreen.loadSubscription and ReaderScreen.loadSubscription read the
   subscription without waiting for isReady. *)

ScreenGetSubscription ==
    /\ lastGet' = [op |-> "getUserSubscription", initCompleted |-> initCompleted,
                   result |-> getUserSubscription]
    /\ UNCHANGED <<storageVars, initVars, now, updVars, setVars, callVars, aiVars, ttsVars, rdrVars, favVars,
            moreVars>>

ScreenGetSettings ==
    /\ lastGet' = [op |-> "getSettings", initCompleted |-> initCompleted,
                   result |-> getSettings]
    /\ UNCHANGED <<storageVars, initVars, now, updVars, setVars, callVars, aiVars, ttsVars, rdrVars, favVars,
            moreVars>>

(* an upgrade that names the new tier and its expiry and nothing else *)
UpgradePartialTierOnly(tier, t) ==
    [tier |-> tier.id, expiresAt |-> Some(t + ExpiryDays)]

----------------------------------------------------------------------------
(* SubscriptionService.upgradeSubscription / cancelSubscription over
   DatabaseService.updateSubscription: a read, then a write *)

UpgradePartial(tier, t) ==
    [tier |-> tier.id, price |-> tier.price, features |-> tier.features,
     booksPerMonth |-> tier.booksPerMonth, hasAI |-> tier.hasAI,
     hasNaturalTTS |-> tier.hasNaturalTTS, expiresAt |-> Some(t + ExpiryDays)]

CancelPartial ==
    [tier |-> "free", price |-> 0, features |-> Tiers[1].features,
     booksPerMonth |-> 0, hasAI |-> FALSE, hasNaturalTTS |-> FALSE,
     expiresAt |-> None]

(* updateSubscription up to its first await: the guard and the SELECT.  A throw is
   caught by the service, which returns false. *)
UpdateSubscriptionCall(partial) ==
    /\ updPc = "idle"
    /\ IF getUserSubscription.threw
       THEN UNCHANGED updVars
       ELSE /\ updPc' = "read"
            /\ updPartial' = Some(partial)
            /\ updCurrent' = getUserSubscription.value
    /\ UNCHANGED <<storageVars, initVars, now, setVars, lastGet, callVars, aiVars, ttsVars, rdrVars, favVars,
            moreVars>>

UpgradeSubscription ==
    \E tierId \in PaidTierIds :
        /\ IsSome(FindTier(tierId))
        /\ UpdateSubscriptionCall(UpgradePartial(Get(FindTier(tierId)), now))

CancelSubscription == UpdateSubscriptionCall(CancelPartial)

(* partial records given to updateSubscription directly *)
SubscriptionInputs ==
    { [hasAI |-> TRUE],
      [tier |-> "basic", price |-> 5],
      [features |-> <<"Notes">>, booksPerMonth |-> 1, hasNaturalTTS |-> TRUE],
      [expiresAt |-> None] }

(* db.updateSubscription(partial) *)
StoreUpdateSubscription ==
    \E partial \in SubscriptionInputs : UpdateSubscriptionCall(partial)

(* updateSubscription after the SELECT: if (!current) return; merge; UPDATE *)
UpdateSubscriptionWrite ==
    /\ updPc = "read"
    /\ userSubscription' =
         IF ~IsSome(updCurrent) THEN userSubscription
         ELSE SqlUpdateSubscription(userSubscription, Merge(Get(updCurrent), Get(updPartial)))
    /\ updPc' = "idle" /\ updPartial' = None /\ updCurrent' = None
    /\ UNCHANGED <<tables, categories, books, settings, files>>
    /\ UNCHANGED <<initVars, now, setVars, lastGet, callVars, aiVars, ttsVars, rdrVars, favVars, moreVars>>

(* A second caller of the service, whose updateSubscription call runs while the
   first one's is in flight *)
SecondUpdateSubscriptionCall(partial) ==
    /\ upd2Pc = "idle"
    /\ IF getUserSubscription.threw
       THEN UNCHANGED upd2Vars
       ELSE /\ upd2Pc' = "read"
            /\ upd2Partial' = Some(partial)
            /\ upd2Current' = getUserSubscription.value
    /\ UNCHANGED <<chatVars, provVars, stopPc>>
    /\ UNCHANGED <<storageVars, initVars, now, updVars, setVars, lastGet, callVars, aiVars,
                   ttsVars, rdrVars, favVars>>

SecondUpgradeSubscription ==
    \E tierId \in PaidTierIds :
        /\ IsSome(FindTier(tierId))
        /\ SecondUpdateSubscriptionCall(UpgradePartial(Get(FindTier(tierId)), now))

SecondCancelSubscription == SecondUpdateSubscriptionCall(CancelPartial)

SecondUpdateSubscriptionWrite ==
    /\ upd2Pc = "read"
    /\ userSubscription' =
         IF ~IsSome(upd2Current) THEN userSubscription
         ELSE SqlUpdateSubscription(userSubscription, Merge(Get(upd2Current), Get(upd2Partial)))
    /\ upd2Pc' = "idle" /\ upd2Partial' = None /\ upd2Current' = None
    /\ UNCHANGED <<chatVars, provVars, stopPc>>
    /\ UNCHANGED <<tables, categories, books, settings, files>>
    /\ UNCHANGED <<initVars, now, updVars, setVars, lastGet, callVars, aiVars, ttsVars, rdrVars,
                   favVars>>

(* this.tiers.find(tier => tier.id === tierName) *)
getTierByName(tierName) == FindTier(tierName)

(* SubscriptionService.canAccessFeature(userTier, feature) *)
canAccessFeature(userTier, feature) ==
    LET tier == getTierByName(userTier)
    IN  IF ~IsSome(tier) THEN FALSE
        ELSE CASE feature = "ai" -> Get(tier).hasAI
               [] feature = "naturalTTS" -> Get(tier).hasNaturalTTS
               [] feature = "freeBooks" -> Get(tier).booksPerMonth > 0
               [] OTHER -> FALSE

----------------------------------------------------------------------------
(* DatabaseService.updateSettings: a read, then a write
   (SettingsScreen.updateSetting passes one key) *)

SettingsInputs ==
    { [theme |-> "dark"], [autoSync |-> TRUE] }

UpdateSettingsCall ==
    \E partial \in SettingsInputs :
        /\ setPc = "idle"
        /\ IF getSettings.threw
           THEN UNCHANGED setVars
           ELSE /\ setPc' = "read"
                /\ setPartial' = Some(partial)
                /\ setCurrent' = getSettings.value
        /\ UNCHANGED <<storageVars, initVars, now, updVars, lastGet, callVars, aiVars, ttsVars, rdrVars, favVars,
            moreVars>>

UpdateSettingsWrite ==
    /\ setPc = "read"
    /\ settings' =
         IF ~IsSome(setCurrent) THEN settings
         ELSE SqlUpdateSettings(settings, Merge(Get(setCurrent), Get(setPartial)))
    /\ setPc' = "idle" /\ setPartial' = None /\ setCurrent' = None
    /\ UNCHANGED <<tables, categories, books, userSubscription, files>>
    /\ UNCHANGED <<initVars, now, updVars, lastGet, callVars, aiVars, ttsVars, rdrVars, favVars, moreVars>>

----------------------------------------------------------------------------
(* DatabaseService: categories *)

TimestampId(t) == ToString(t)

(* createCategory: id = Date.now().toString(); a plain INSERT, which fails on an
   existing primary key *)
CreateCategory ==
    /\ ~DbGuardFails
    /\ "categories" \in tables
    /\ RowsWithId(categories, TimestampId(now)) = {}
    /\ categories' = categories \cup
         {[id |-> TimestampId(now), name |-> "Custom", icon |-> "Book", color |-> "#000000",
           createdAt |-> now, updatedAt |-> now]}
    /\ UNCHANGED <<tables, books, userSubscription, settings, files>>
    /\ UNCHANGED <<initVars, now, updVars, setVars, lastGet, callVars, aiVars, ttsVars, rdrVars, favVars,
            moreVars>>

(* deleteCategory(id): DELETE FROM categories WHERE id = ? *)
DeleteInputs == {"5", TimestampId(0)}

DeleteCategory ==
    \E id \in DeleteInputs :
        /\ ~DbGuardFails
        /\ "categories" \in tables
        /\ RowsWithId(categories, id) # {}
        /\ categories' = {c \in categories : c.id # id}
        /\ UNCHANGED <<tables, books, userSubscription, settings, files>>
        /\ UNCHANGED <<initVars, now, updVars, setVars, lastGet, callVars, aiVars, ttsVars, rdrVars, favVars,
            moreVars>>

----------------------------------------------------------------------------
(* AIService.askQuestion *)

AIFailure(msg) == [success |-> FALSE, error |-> msg]
AISuccess == [success |-> TRUE, error |-> ""]

(* the check passes whenever a record was returned *)
HasAIIgnoresFlag(subscription) == IsSome(subscription)

(* subscription?.hasAI *)
HasAI(subscription) == IsSome(subscription) /\ Get(subscription).hasAI

(* askQuestion up to its first await: getCurrentSubscription; a throw is caught and
   returned as a failure carrying the error's message *)
AskQuestionCall ==
    /\ aiPc = "idle"
    /\ fetchCalls < MaxFetch
    /\ IF getCurrentSubscription.threw
       THEN /\ aiResult' = Some(AIFailure(getCurrentSubscription.error))
            /\ UNCHANGED <<aiPc, aiSub>>
       ELSE /\ aiPc' = "subscription"
            /\ aiSub' = getCurrentSubscription.value
            /\ aiResult' = None
    /\ UNCHANGED <<fetchCalls, apiKey>>
    /\ UNCHANGED <<storageVars, initVars, now, updVars, setVars, lastGet, callVars, ttsVars, rdrVars, favVars,
            moreVars>>

(* the entitlement check, the api key check and the call of fetch *)
AskQuestionCheck ==
    /\ aiPc = "subscription"
    /\ IF ~HasAI(aiSub)
       THEN /\ aiResult' = Some(AIFailure(AISubscriptionRequired))
            /\ aiPc' = "idle"
            /\ UNCHANGED fetchCalls
       ELSE IF apiKey = ""
       THEN /\ aiResult' = Some(AIFailure(AINotConfigured))
            /\ aiPc' = "idle"
            /\ UNCHANGED fetchCalls
       ELSE /\ fetchCalls' = fetchCalls + 1
            /\ aiPc' = "fetch"
            /\ UNCHANGED aiResult
    /\ aiSub' = None
    /\ UNCHANGED apiKey
    /\ UNCHANGED <<storageVars, initVars, now, updVars, setVars, lastGet, callVars, ttsVars, rdrVars, favVars,
            moreVars>>

(* the response of the AI collaborator: ok, or not ok / a network error *)
AskQuestionResponse ==
    \E ok \in BOOLEAN :
        /\ aiPc = "fetch"
        /\ aiResult' = IF ok THEN Some(AISuccess) ELSE Some(AIFailure(AIRequestFailed))
        /\ aiPc' = "idle"
        /\ UNCHANGED <<aiSub, fetchCalls, apiKey>>
        /\ UNCHANGED <<storageVars, initVars, now, updVars, setVars, lastGet, callVars, ttsVars, rdrVars, favVars,
            moreVars>>

----------------------------------------------------------------------------
(* TTSService.speak / stop and the speech engine.  engine is the queue of utterances
   handed to Speech.speak; the head is the one being spoken once it has started. *)

TTSOutcome(natural, err) == [natural |-> natural, error |-> err]

(* subscription?.hasNaturalTTS || false *)
CanUseNaturalTTS(subscription) ==
    IsSome(subscription) /\ Get(subscription).hasNaturalTTS

(* the request is never refused: speech goes on in the default voice *)
NaturalVoiceDegrades(useNaturalVoice, canUseNaturalTTS) == FALSE

(* if (useNaturalVoice && !canUseNaturalTTS) throw *)
NaturalVoiceRefused(useNaturalVoice, canUseNaturalTTS) ==
    useNaturalVoice /\ ~canUseNaturalTTS

(* the speechOptions of an utterance; voice is set when an enhanced voice was found *)
Utterance(useNaturalVoice, enhancedFound) ==
    [rate |-> IF useNaturalVoice THEN "0.9" ELSE "0.8",
     pitch |-> IF useNaturalVoice THEN "1.0" ELSE "0.9",
     voice |-> IF enhancedFound THEN "enhanced" ELSE "default",
     callbacks |-> platform # "web",
     started |-> FALSE]

(* speak up to its first await: getCurrentSubscription; a throw runs the catch block *)
SpeakCall ==
    \E useNaturalVoice \in BOOLEAN :
        /\ ttsPc = "idle"
        /\ Len(engine) < MaxUtterances
        /\ IF getCurrentSubscription.threw
           THEN /\ isSpeaking' = FALSE
                /\ ttsResult' = Some(TTSOutcome(useNaturalVoice, Some(getCurrentSubscription.error)))
                /\ UNCHANGED <<ttsPc, ttsNatural, ttsSub>>
           ELSE /\ ttsPc' = "subscription"
                /\ ttsNatural' = useNaturalVoice
                /\ ttsSub' = getCurrentSubscription.value
                /\ ttsResult' = None
                /\ UNCHANGED isSpeaking
        /\ UNCHANGED <<engine, platform>>
        /\ UNCHANGED <<storageVars, initVars, now, updVars, setVars, lastGet, callVars, aiVars, rdrVars, favVars,
            moreVars>>

(* await Speech.speak(text, speechOptions); speak returns *)
SpeechSpeak(enhancedFound) ==
    /\ engine' = Append(engine, Utterance(ttsNatural, enhancedFound))
    /\ ttsResult' = Some(TTSOutcome(ttsNatural, None))
    /\ ttsPc' = "idle"
    /\ ttsNatural' = FALSE
    /\ ttsSub' = None

(* the rest of speak once it is past stop(): the voice lookup is awaited only for an
   entitled natural voice off the web; otherwise the utterance is handed over at once *)
AfterStop ==
    IF ttsNatural /\ CanUseNaturalTTS(ttsSub) /\ platform # "web"
    THEN /\ ttsPc' = "voices"
         /\ UNCHANGED <<ttsNatural, ttsSub, ttsResult, engine>>
    ELSE SpeechSpeak(FALSE)

(* the entitlement check; then stop() is called when isSpeaking *)
SpeakCheck ==
    /\ ttsPc = "subscription"
    /\ IF NaturalVoiceRefused(ttsNatural, CanUseNaturalTTS(ttsSub))
       THEN /\ isSpeaking' = FALSE
            /\ ttsResult' = Some(TTSOutcome(ttsNatural, Some(TTSSubscriptionRequired)))
            /\ ttsPc' = "idle"
            /\ ttsNatural' = FALSE
            /\ ttsSub' = None
            /\ UNCHANGED engine
       ELSE IF isSpeaking
       THEN /\ engine' = <<>>
            /\ ttsPc' = "stopping"
            /\ UNCHANGED <<isSpeaking, ttsResult, ttsNatural, ttsSub>>
       ELSE /\ AfterStop
            /\ UNCHANGED isSpeaking
    /\ UNCHANGED platform
    /\ UNCHANGED <<storageVars, initVars, now, updVars, setVars, lastGet, callVars, aiVars, rdrVars, favVars,
            moreVars>>

(* stop() inside speak: Speech.stop() has resolved, this.isSpeaking = false *)
SpeakStopped ==
    /\ ttsPc = "stopping"
    /\ isSpeaking' = FALSE
    /\ AfterStop
    /\ UNCHANGED platform
    /\ UNCHANGED <<storageVars, initVars, now, updVars, setVars, lastGet, callVars, aiVars, rdrVars, favVars,
            moreVars>>

(* Speech.getAvailableVoicesAsync() has resolved: an enhanced voice is found or not *)
SpeakVoices ==
    \E enhancedFound \in BOOLEAN :
        /\ ttsPc = "voices"
        /\ SpeechSpeak(enhancedFound)
        /\ UNCHANGED <<isSpeaking, platform>>
        /\ UNCHANGED <<storageVars, initVars, now, updVars, setVars, lastGet, callVars, aiVars, rdrVars, favVars,
            moreVars>>

(* the engine starts the head utterance: onStart *)
EngineStart ==
    /\ engine # <<>>
    /\ ~engine[1].started
    /\ engine' = [engine EXCEPT ![1].started = TRUE]
    /\ isSpeaking' = IF engine[1].callbacks THEN TRUE ELSE isSpeaking
    /\ UNCHANGED <<ttsPc, ttsNatural, ttsSub, ttsResult, platform>>
    /\ UNCHANGED <<storageVars, initVars, now, updVars, setVars, lastGet, callVars, aiVars, rdrVars, favVars,
            moreVars>>

(* the engine finishes the head utterance, or fails on it: onDone / onError *)
EngineDone ==
    /\ engine # <<>>
    /\ engine[1].started
    /\ engine' = Tail(engine)
    /\ isSpeaking' = IF engine[1].callbacks THEN FALSE ELSE isSpeaking
    /\ UNCHANGED <<ttsPc, ttsNatural, ttsSub, ttsResult, platform>>
    /\ UNCHANGED <<storageVars, initVars, now, updVars, setVars, lastGet, callVars, aiVars, rdrVars, favVars,
            moreVars>>

(* TTSService.stop() up to its await: Speech.stop() discards what the engine
   speaks and holds *)
StopCall ==
    /\ stopPc = "idle"
    /\ stopPc' = "stopping"
    /\ engine' = <<>>
    /\ UNCHANGED <<ttsPc, ttsNatural, ttsSub, ttsResult, isSpeaking, platform>>
    /\ UNCHANGED <<chatVars, upd2Vars, provVars>>
    /\ UNCHANGED <<storageVars, initVars, now, updVars, setVars, lastGet, callVars, aiVars,
                   rdrVars, favVars>>

(* Speech.stop() has resolved: this.isSpeaking = false *)
StopDone ==
    /\ stopPc = "stopping"
    /\ stopPc' = "idle"
    /\ isSpeaking' = FALSE
    /\ UNCHANGED <<ttsPc, ttsNatural, ttsSub, ttsResult, engine, platform>>
    /\ UNCHANGED <<chatVars, upd2Vars, provVars>>
    /\ UNCHANGED <<storageVars, initVars, now, updVars, setVars, lastGet, callVars, aiVars,
                   rdrVars, favVars>>

(* TTSService.getIsSpeaking() *)
getIsSpeaking == isSpeaking

----------------------------------------------------------------------------
(* DatabaseService: books.  A row keeps the columns the operations read or write;
   author, filePath, coverImage, source, price and affiliateUrl are stored and
   returned as given. *)

BookIds == {r.id : r \in books}

(* the row createBook inserts for `book` under `id` *)
BookRow(id, book) ==
    [id |-> id,
     lastPageRead |-> book.lastPageRead,
     totalPages |-> book.totalPages,
     categoryId |-> book.categoryId,
     genreTags |-> JSONstringify(OrEmpty(book.genreTags)),
     fileType |-> book.fileType,
     isCompleted |-> BoolToInt(book.isCompleted),
     isFavorite |-> BoolToInt(book.isFavorite),
     createdAt |-> book.createdAt,
     updatedAt |-> book.updatedAt]

DecodeBook(row) ==
    [row EXCEPT !.genreTags = ParseOrEmpty(@),
                !.isCompleted = Boolean(@),
                !.isFavorite = Boolean(@)]

(* getBookById on a books table *)
GetBook(table, id) ==
    LET result == GetFirst(table, id)
    IN  IF ~IsSome(result) THEN None ELSE Some(DecodeBook(Get(result)))

getBookById(id) ==
    IF DbGuardFails THEN Throw(NotInitialized)
    ELSE IF "books" \notin tables THEN Throw(SqlError)
    ELSE Return(GetBook(books, id))

(* getAllBooks: every row decoded.  The rows carry no title here, so the result is
   the set of the books, without its ORDER BY title. *)
getAllBooks ==
    IF DbGuardFails THEN Throw(NotInitialized)
    ELSE IF "books" \notin tables THEN Throw(SqlError)
    ELSE Return({DecodeBook(r) : r \in books})

(* getBooksByCategory: the rows WHERE categoryId = ?, decoded *)
getBooksByCategory(categoryId) ==
    IF DbGuardFails THEN Throw(NotInitialized)
    ELSE IF "books" \notin tables THEN Throw(SqlError)
    ELSE Return({DecodeBook(r) : r \in {x \in books : x.categoryId = Some(categoryId)}})

(* UPDATE books SET lastPageRead = ?, updatedAt = ? WHERE id = ? *)
SqlUpdateProgress(table, bookId, lastPageRead, t) ==
    { IF r.id = bookId THEN [r EXCEPT !.lastPageRead = lastPageRead, !.updatedAt = t]
      ELSE r : r \in table }

(* UPDATE books SET categoryId = ?, updatedAt = ? WHERE id = ? *)
SqlUpdateCategory(table, bookId, categoryId, t) ==
    { IF r.id = bookId THEN [r EXCEPT !.categoryId = Some(categoryId), !.updatedAt = t]
      ELSE r : r \in table }

(* UPDATE books SET isFavorite = ?, updatedAt = ? WHERE id = ? *)
SqlUpdateFavorite(table, bookId, isFavorite, t) ==
    { IF r.id = bookId THEN [r EXCEPT !.isFavorite = isFavorite, !.updatedAt = t]
      ELSE r : r \in table }

(* the same UPDATE without its WHERE clause: every book is completed *)
SqlMarkEveryBookCompleted(table, bookId, t) ==
    { [r EXCEPT !.isCompleted = 1, !.categoryId = Some(ReadCategoryId), !.updatedAt = t]
      : r \in table }

(* UPDATE books SET isCompleted = 1, categoryId = '4', updatedAt = ? WHERE id = ? *)
SqlMarkCompleted(table, bookId, t) ==
    { IF r.id = bookId
      THEN [r EXCEPT !.isCompleted = 1, !.categoryId = Some(ReadCategoryId), !.updatedAt = t]
      ELSE r : r \in table }

FileTypeInputs == {"txt", "pdf"}

(* the token counts content.split(/\s+/).length of the imported text files: one,
   two and three pages *)
TokenInputs == {1, WordsPerPage + 1, 2 * WordsPerPage + 1}

(* createBook(book): id = Date.now().toString(); a plain INSERT, which fails on an
   existing primary key.  The book is created as LibraryScreen.addBook creates it,
   with totalPages left to the caller. *)
CreateBook(totalPages_, fileType, tokens, genreTags) ==
    /\ ~DbGuardFails
    /\ "books" \in tables
    /\ RowsWithId(books, TimestampId(now)) = {}
    /\ books' = books \cup
         { BookRow(TimestampId(now),
                   [lastPageRead |-> 0, totalPages |-> totalPages_, categoryId |-> Some("2"),
                    genreTags |-> genreTags, fileType |-> fileType,
                    isCompleted |-> FALSE, isFavorite |-> FALSE,
                    createdAt |-> now, updatedAt |-> now]) }
    /\ files' = [id \in DOMAIN files \cup {TimestampId(now)} |->
                    IF id = TimestampId(now) THEN tokens ELSE files[id]]
    /\ UNCHANGED <<tables, categories, userSubscription, settings>>
    /\ UNCHANGED <<initVars, now, updVars, setVars, lastGet, callVars, aiVars, ttsVars, rdrVars,
                   favVars, moreVars>>

(* LibraryScreen.addBook: the book is stored with totalPages: 0 *)
AddBook ==
    CreateBook(0, "txt", 1, Some(<<"general">>))

(* createBook called with a page count and a file of any of the input sizes *)
ImportBook ==
    \E tp \in 0..MaxStoredPages, ft \in FileTypeInputs, tokens \in TokenInputs :
        /\ ft # "txt" => tokens = 1
        /\ CreateBook(tp, ft, tokens, Some(<<"general">>))

(* updateBookProgress(bookId, lastPageRead) *)
UpdateBookProgress(bookId, lastPageRead) ==
    /\ ~DbGuardFails
    /\ books' = SqlUpdateProgress(books, bookId, lastPageRead, now)
    /\ UNCHANGED <<tables, categories, userSubscription, settings, files>>
    /\ UNCHANGED <<initVars, now, updVars, setVars, lastGet, callVars, aiVars, ttsVars, rdrVars,
                   favVars, moreVars>>

(* updateBookCategory(bookId, categoryId) *)
UpdateBookCategory(bookId, categoryId) ==
    /\ ~DbGuardFails
    /\ books' = SqlUpdateCategory(books, bookId, categoryId, now)
    /\ UNCHANGED <<tables, categories, userSubscription, settings, files>>
    /\ UNCHANGED <<initVars, now, updVars, setVars, lastGet, callVars, aiVars, ttsVars, rdrVars,
                   favVars, moreVars>>

(* markBookCompleted(bookId) *)
MarkBookCompleted(bookId) ==
    /\ ~DbGuardFails
    /\ books' = SqlMarkCompleted(books, bookId, now)
    /\ UNCHANGED <<tables, categories, userSubscription, settings, files>>
    /\ UNCHANGED <<initVars, now, updVars, setVars, lastGet, callVars, aiVars, ttsVars, rdrVars,
                   favVars, moreVars>>

(* the callers that may have a toggleBookFavorite call in flight at once: two taps
   on the heart of LibraryScreen *)
Callers == {"a", "b"}

(* the value bound to isFavorite: 1 whatever was read *)
FavoriteAlwaysSet(read, stored) == 1

(* the value an UPDATE computing NOT isFavorite in the statement would store *)
FavoriteNegatesStored(read, stored) == IF Boolean(stored) THEN 0 ELSE 1

(* book.isFavorite ? 0 : 1, where book is the record getBookById returned; the
   column's value at the time of the UPDATE takes no part *)
FavoriteValue(read, stored) == IF read THEN 0 ELSE 1

(* toggleBookFavorite(bookId) by caller c up to its await: getBookById; favRead is
   the isFavorite of the book it read; it returns at once when there is no book *)
ToggleBookFavoriteCall(c, bookId) ==
    /\ favPc[c] = "idle"
    /\ ~getBookById(bookId).threw
    /\ IsSome(getBookById(bookId).value)
    /\ favPc' = [favPc EXCEPT ![c] = "read"]
    /\ favId' = [favId EXCEPT ![c] = Some(bookId)]
    /\ favRead' = [favRead EXCEPT ![c] = Get(getBookById(bookId).value).isFavorite]
    /\ UNCHANGED <<storageVars, initVars, now, updVars, setVars, lastGet, callVars, aiVars, ttsVars,
                   rdrVars, moreVars>>

(* toggleBookFavorite after the read: the UPDATE with the negation of what was read *)
ToggleBookFavoriteWrite(c) ==
    /\ favPc[c] = "read"
    /\ books' = SqlUpdateFavorite(books, Get(favId[c]),
                    FavoriteValue(favRead[c],
                                  (CHOOSE r \in RowsWithId(books, Get(favId[c])) : TRUE).isFavorite),
                    now)
    /\ favPc' = [favPc EXCEPT ![c] = "idle"]
    /\ favId' = [favId EXCEPT ![c] = None]
    /\ favRead' = [favRead EXCEPT ![c] = FALSE]
    /\ UNCHANGED <<tables, categories, userSubscription, settings, files>>
    /\ UNCHANGED <<initVars, now, updVars, setVars, lastGet, callVars, aiVars, ttsVars, rdrVars, moreVars>>

(* the genreTags given to createBook: absent, empty, and ordered lists *)
GenreTagInputs ==
    { None, Some(<<>>), Some(<<"finance">>), Some(<<"finance", "business">>),
      Some(<<"business", "finance">>), Some(<<"fiction", "fiction", "history">>) }

(* db.createBook with any of the genreTags *)
StoreCreateBook ==
    \E g \in GenreTagInputs : CreateBook(0, "txt", 1, g)

CategoryInputs == {"1", ReadCategoryId}

ProgressInputs == {0, 1}

(* the book operations of the store, called on the books it holds *)
StoreUpdateBookProgress ==
    \E bookId \in BookIds, page \in ProgressInputs : UpdateBookProgress(bookId, page)

StoreUpdateBookCategory ==
    \E bookId \in BookIds, categoryId \in CategoryInputs :
        UpdateBookCategory(bookId, categoryId)

StoreMarkBookCompleted ==
    \E bookId \in BookIds : MarkBookCompleted(bookId)

StoreToggleBookFavorite ==
    \E bookId \in BookIds : ToggleBookFavoriteCall("a", bookId)

StoreToggleBookFavoriteWrite ==
    ToggleBookFavoriteWrite("a")

(* toggleBookFavorite called by any caller, two calls possibly in flight *)
TapFavorite ==
    \E c \in Callers, bookId \in BookIds : ToggleBookFavoriteCall(c, bookId)

TapFavoriteWrite ==
    \E c \in Callers : ToggleBookFavoriteWrite(c)

----------------------------------------------------------------------------
(* ReaderScreen: loadBook and goToPage *)

(* Math.ceil(words / 400) *)
PageCount(words) == (words + WordsPerPage - 1) \div WordsPerPage

(* loadBook: getBookById, setBook, setCurrentPage(lastPageRead), and the page count
   of the content (one page for a file that is not text) *)
LoadBook ==
    \E id \in BookIds :
        /\ rdrPc = "closed"
        /\ ~getBookById(id).threw
        /\ rdrBook' = getBookById(id).value
        /\ currentPage' = Get(getBookById(id).value).lastPageRead
        /\ totalPages' = IF Get(getBookById(id).value).fileType = "txt"
                         THEN PageCount(files[id]) ELSE 1
        /\ rdrPc' = "ready"
        /\ rdrPage' = 0
        /\ markCalls' = 0
        /\ UNCHANGED <<storageVars, initVars, now, updVars, setVars, lastGet, callVars, aiVars, ttsVars,
                       favVars, moreVars>>

(* router.back(): the state of the reader screen is gone *)
ReaderUnmounts ==
    /\ rdrPc = "ready"
    /\ rdrBook' = None /\ currentPage' = 0 /\ totalPages' = 0
    /\ rdrPc' = "closed" /\ rdrPage' = 0 /\ markCalls' = 0

(* router.back(): the reader screen is left *)
CloseReader ==
    /\ ReaderUnmounts
    /\ UNCHANGED <<storageVars, initVars, now, updVars, setVars, lastGet, callVars, aiVars, ttsVars,
                   favVars, moreVars>>

(* goToPage(page) up to its first await: the range check, setCurrentPage and
   updateBookProgress *)
GoToPage(page) ==
    /\ rdrPc = "ready"
    /\ markCalls < MaxMarks
    /\ IF page < 0 \/ page >= totalPages
       THEN UNCHANGED <<books, currentPage, rdrPc, rdrPage>>
       ELSE /\ currentPage' = page
            /\ ~DbGuardFails
            /\ books' = SqlUpdateProgress(books, Get(rdrBook).id, page, now)
            /\ rdrPc' = "progress"
            /\ rdrPage' = page
    /\ UNCHANGED <<rdrBook, totalPages, markCalls>>
    /\ UNCHANGED <<tables, categories, userSubscription, settings, files>>
    /\ UNCHANGED <<initVars, now, updVars, setVars, lastGet, callVars, aiVars, ttsVars, favVars, moreVars>>

(* goToPage after updateBookProgress: markBookCompleted when the last page is
   reached and the book the reader loaded is not completed *)
GoToPageCompletion ==
    /\ rdrPc = "progress"
    /\ IF rdrPage >= totalPages - 1 /\ ~Get(rdrBook).isCompleted
       THEN /\ ~DbGuardFails
            /\ books' = SqlMarkCompleted(books, Get(rdrBook).id, now)
            /\ markCalls' = markCalls + 1
       ELSE UNCHANGED <<books, markCalls>>
    /\ rdrPc' = "ready"
    /\ UNCHANGED <<rdrBook, currentPage, totalPages, rdrPage>>
    /\ UNCHANGED <<tables, categories, userSubscription, settings, files>>
    /\ UNCHANGED <<initVars, now, updVars, setVars, lastGet, callVars, aiVars, ttsVars, favVars, moreVars>>

(* the previous-page button, disabled on page 0 *)
PressPrevious ==
    /\ currentPage # 0
    /\ GoToPage(currentPage - 1)

(* the next-page button, disabled on the last page *)
PressNext ==
    /\ ~(currentPage >= totalPages - 1)
    /\ GoToPage(currentPage + 1)

----------------------------------------------------------------------------
(* ReaderScreen: the pages of a text.  A content is given by its shape: the number
   of its words (maximal runs of non-whitespace, numbered from 1), and whether
   whitespace precedes the first and follows the last; a content without words is
   empty (lead = trail = FALSE) or all whitespace (lead = trail = TRUE). *)

WordCountInputs == {0, 1, 2, 399, 400, 401, 799, 800, 801, 1000, 1200, 1201}

ContentInputs ==
    { c \in [lead : BOOLEAN, words : WordCountInputs, trail : BOOLEAN] :
        c.words = 0 => c.lead = c.trail }

(* content.split(/\s+/): the words in order, with an empty string (0) in front when
   the content starts with whitespace and at the end when it ends with whitespace;
   the empty content gives one empty string *)
Split(content) ==
    IF content.words = 0 /\ ~content.lead THEN <<0>>
    ELSE (IF content.lead THEN <<0>> ELSE <<>>)
         \o [i \in 1..content.words |-> i]
         \o (IF content.trail THEN <<0>> ELSE <<>>)

(* !content: the empty string is falsy *)
IsEmptyContent(content) == content.words = 0 /\ ~content.lead

(* array.slice(startIndex, endIndex) with 0-based indices, both clamped *)
Slice(array, startIndex, endIndex) ==
    LET first == IF startIndex < Len(array) THEN startIndex + 1 ELSE Len(array) + 1
        last  == IF endIndex < Len(array) THEN endIndex ELSE Len(array)
    IN  SubSeq(array, first, last)

(* getPageContent: the tokens of the page that are joined by ' ' *)
getPageContent(content, page) ==
    IF IsEmptyContent(content) THEN <<>>
    ELSE Slice(Split(content), page * WordsPerPage, page * WordsPerPage + WordsPerPage)

(* loadBook on a text: Math.ceil(content.split(/\s+/).length / 400) *)
LoadContent ==
    /\ IsSome(callInput)
    /\ Get(callInput).fn = "loadBook"
    /\ callOutput = None
    /\ callOutput' = Some([totalPages |-> PageCount(Len(Split(Get(callInput).content))),
                           page |-> None, pageContent |-> <<>>])
    /\ UNCHANGED callInput
    /\ UNCHANGED <<storageVars, initVars, now, updVars, setVars, lastGet, aiVars, ttsVars,
                   rdrVars, favVars, moreVars>>

(* the reader renders getPageContent() for a current page within the page count *)
RenderPage ==
    /\ IsSome(callOutput)
    /\ Get(callInput).fn = "loadBook"
    /\ \E p \in 0..(Get(callOutput).totalPages - 1) :
          callOutput' = Some([Get(callOutput) EXCEPT
                                !.page = Some(p),
                                !.pageContent = getPageContent(Get(callInput).content, p)])
    /\ UNCHANGED callInput
    /\ UNCHANGED <<storageVars, initVars, now, updVars, setVars, lastGet, aiVars, ttsVars,
                   rdrVars, favVars, moreVars>>

----------------------------------------------------------------------------
(* FileService.detectGenre.  A string is the sequence of its characters. *)

UpperCaseLetters ==
    <<"A", "B", "C", "D", "E", "F", "G", "H", "I", "J", "K", "L", "M", "N", "O", "P", "Q", "R", "S", "T", "U", "V", "W", "X", "Y", "Z">>

LowerCaseLetters ==
    <<"a", "b", "c", "d", "e", "f", "g", "h", "i", "j", "k", "l", "m", "n", "o", "p", "q", "r", "s", "t", "u", "v", "w", "x", "y", "z">>

(* str.toLowerCase() *)
toLowerCase(str) ==
    [i \in 1..Len(str) |->
        IF \E k \in 1..Len(UpperCaseLetters) : UpperCaseLetters[k] = str[i]
        THEN LowerCaseLetters[CHOOSE k \in 1..Len(UpperCaseLetters) : UpperCaseLetters[k] = str[i]]
        ELSE str[i]]

(* str.includes(keyword) *)
includes(str, keyword) ==
    \E i \in 0..(Len(str) - Len(keyword)) : SubSeq(str, i + 1, i + Len(keyword)) = keyword

(* genreKeywords, in the order of Object.entries *)
GenreKeywords ==
    <<
       [genre |-> "finance", keywords |-> <<
          <<"f", "i", "n", "a", "n", "c", "e">>,
          <<"m", "o", "n", "e", "y">>,
          <<"i", "n", "v", "e", "s", "t", "m", "e", "n", "t">>,
          <<"w", "e", "a", "l", "t", "h">>,
          <<"t", "r", "a", "d", "i", "n", "g">>,
          <<"e", "c", "o", "n", "o", "m", "i", "c", "s">>,
          <<"b", "u", "s", "i", "n", "e", "s", "s">> >>],
       [genre |-> "business", keywords |-> <<
          <<"b", "u", "s", "i", "n", "e", "s", "s">>,
          <<"e", "n", "t", "r", "e", "p", "r", "e", "n", "e", "u", "r">>,
          <<"m", "a", "n", "a", "g", "e", "m", "e", "n", "t">>,
          <<"l", "e", "a", "d", "e", "r", "s", "h", "i", "p">>,
          <<"s", "t", "a", "r", "t", "u", "p">>,
          <<"s", "t", "r", "a", "t", "e", "g", "y">> >>],
       [genre |-> "technical", keywords |-> <<
          <<"p", "r", "o", "g", "r", "a", "m", "m", "i", "n", "g">>,
          <<"c", "o", "d", "e">>,
          <<"d", "e", "v", "e", "l", "o", "p", "m", "e", "n", "t">>,
          <<"s", "o", "f", "t", "w", "a", "r", "e">>,
          <<"c", "o", "m", "p", "u", "t", "e", "r">>,
          <<"t", "e", "c", "h">>,
          <<"a", "l", "g", "o", "r", "i", "t", "h", "m">> >>],
       [genre |-> "fiction", keywords |-> <<
          <<"n", "o", "v", "e", "l">>,
          <<"s", "t", "o", "r", "y">>,
          <<"f", "i", "c", "t", "i", "o", "n">>,
          <<"t", "a", "l", "e">>,
          <<"a", "d", "v", "e", "n", "t", "u", "r", "e">>,
          <<"r", "o", "m", "a", "n", "c", "e">> >>],
       [genre |-> "mystery", keywords |-> <<
          <<"m", "y", "s", "t", "e", "r", "y">>,
          <<"d", "e", "t", "e", "c", "t", "i", "v", "e">>,
          <<"c", "r", "i", "m", "e">>,
          <<"m", "u", "r", "d", "e", "r">>,
          <<"t", "h", "r", "i", "l", "l", "e", "r">> >>],
       [genre |-> "scifi", keywords |-> <<
          <<"s", "c", "i", "e", "n", "c", "e", " ", "f", "i", "c", "t", "i", "o", "n">>,
          <<"s", "c", "i", "-", "f", "i">>,
          <<"s", "p", "a", "c", "e">>,
          <<"f", "u", "t", "u", "r", "e">>,
          <<"r", "o", "b", "o", "t">>,
          <<"a", "l", "i", "e", "n">> >>],
       [genre |-> "fantasy", keywords |-> <<
          <<"f", "a", "n", "t", "a", "s", "y">>,
          <<"m", "a", "g", "i", "c">>,
          <<"w", "i", "z", "a", "r", "d">>,
          <<"d", "r", "a", "g", "o", "n">>,
          <<"k", "i", "n", "g", "d", "o", "m">> >>],
       [genre |-> "biography", keywords |-> <<
          <<"b", "i", "o", "g", "r", "a", "p", "h", "y">>,
          <<"m", "e", "m", "o", "i", "r">>,
          <<"l", "i", "f", "e", " ", "o", "f">>,
          <<"a", "u", "t", "o", "b", "i", "o", "g", "r", "a", "p", "h", "y">> >>],
       [genre |-> "history", keywords |-> <<
          <<"h", "i", "s", "t", "o", "r", "y">>,
          <<"h", "i", "s", "t", "o", "r", "i", "c", "a", "l">>,
          <<"w", "a", "r">>,
          <<"a", "n", "c", "i", "e", "n", "t">>,
          <<"c", "i", "v", "i", "l", "i", "z", "a", "t", "i", "o", "n">> >>],
       [genre |-> "selfhelp", keywords |-> <<
          <<"s", "e", "l", "f", " ", "h", "e", "l", "p">>,
          <<"s", "e", "l", "f", "-", "h", "e", "l", "p">>,
          <<"i", "m", "p", "r", "o", "v", "e">>,
          <<"s", "u", "c", "c", "e", "s", "s">>,
          <<"m", "o", "t", "i", "v", "a", "t", "i", "o", "n">>,
          <<"p", "r", "o", "d", "u", "c", "t", "i", "v", "i", "t", "y">> >>],
       [genre |-> "health", keywords |-> <<
          <<"h", "e", "a", "l", "t", "h">>,
          <<"f", "i", "t", "n", "e", "s", "s">>,
          <<"d", "i", "e", "t">>,
          <<"n", "u", "t", "r", "i", "t", "i", "o", "n">>,
          <<"w", "e", "l", "l", "n", "e", "s", "s">>,
          <<"m", "e", "d", "i", "c", "a", "l">> >>],
       [genre |-> "philosophy", keywords |-> <<
          <<"p", "h", "i", "l", "o", "s", "o", "p", "h", "y">>,
          <<"w", "i", "s", "d", "o", "m">>,
          <<"e", "t", "h", "i", "c", "s">>,
          <<"m", "e", "a", "n", "i", "n", "g">>,
          <<"e", "x", "i", "s", "t", "e", "n", "c", "e">> >>]
    >>

(* keywords.some(keyword => titleLower.includes(keyword) || contentLower.includes(keyword)) *)
SomeKeyword(keywords, titleLower, contentLower) ==
    \E k \in 1..Len(keywords) :
        includes(titleLower, keywords[k]) \/ includes(contentLower, keywords[k])

RECURSIVE DetectFrom(_, _, _, _)
(* the for loop from entry i on: genres.push(genre) for an entry with a hit *)
DetectFrom(i, genres, titleLower, contentLower) ==
    IF i > Len(GenreKeywords) THEN genres
    ELSE DetectFrom(i + 1,
                    IF SomeKeyword(GenreKeywords[i].keywords, titleLower, contentLower)
                    THEN Append(genres, GenreKeywords[i].genre)
                    ELSE genres,
                    titleLower, contentLower)

(* "general" is added to whatever was found *)
GenresAndGeneral(genres) == Append(genres, "general")

(* genres.length > 0 ? genres : ['general'] *)
GenresOrGeneral(genres) == IF Len(genres) > 0 THEN genres ELSE <<"general">>

(* detectGenre(title, content?) *)
detectGenre(title, content) ==
    GenresOrGeneral(DetectFrom(1, <<>>, toLowerCase(title),
                               IF IsSome(content) THEN toLowerCase(Get(content)) ELSE <<>>))

IntelligentInvestor ==
    <<"T", "h", "e", " ", "I", "n", "t", "e", "l", "l", "i", "g", "e", "n", "t", " ", "I", "n", "v", "e", "s", "t", "o", "r">>

TitleInputs ==
    { IntelligentInvestor,
      <<"M", "o", "n", "e", "y", " ", "W", "a", "r", "s">>,
      <<"B", "u", "s", "i", "n", "e", "s", "s", " ", "S", "t", "r", "a", "t", "e", "g", "y">>,
      <<"C", "o", "o", "k", "i", "n", "g">>,
      <<"A", " ", "S", "p", "a", "c", "e", " ", "S", "t", "o", "r", "y">>,
      <<"S", "C", "I", "-", "F", "I", " ", "T", "A", "L", "E", "S">>,
      <<"S", "e", "l", "f", " ", "H", "e", "l", "p">>,
      <<>>,
      <<"S", "t", "a", "l", "e", "m", "a", "t", "e">>,
      <<"T", "e", "c", "h", "n", "o">> }

(* the optional content: absent, or a text *)
GenreContentInputs ==
    { None,
      Some(<<>>),
      Some(<<"a", " ", "d", "e", "t", "e", "c", "t", "i", "v", "e", " ", "n", "o", "v", "e", "l">>),
      Some(<<"M", "O", "N", "E", "Y">>),
      Some(<<"h", "e", "a", "l", "t", "h", " ", "a", "n", "d", " ", "w", "i", "s", "d", "o", "m">>),
      Some(<<"n", "o", "t", "h", "i", "n", "g", " ", "h", "e", "r", "e">>) }

DetectGenre ==
    /\ IsSome(callInput)
    /\ Get(callInput).fn = "detectGenre"
    /\ callOutput = None
    /\ callOutput' = Some(detectGenre(Get(callInput).title, Get(callInput).content))
    /\ UNCHANGED callInput
    /\ UNCHANGED <<storageVars, initVars, now, updVars, setVars, lastGet, aiVars, ttsVars,
                   rdrVars, favVars, moreVars>>

(* \s of a regular expression, for the characters the file names use *)
IsWhitespace(c) == c \in {" ", "\t"}

(* str.trim() *)
trim(str) ==
    LET kept == {i \in 1..Len(str) : ~IsWhitespace(str[i])}
    IN  IF kept = {} THEN <<>>
        ELSE SubSeq(str, CHOOSE i \in kept : \A j \in kept : i <= j,
                         CHOOSE i \in kept : \A j \in kept : j <= i)

(* filename.match(/^(.+?)\s*SEP\s*(.+)$/), with the i flag when ignoreCase: the
   lazy first group is the shortest prefix of one character or more that is
   followed by white space, the separator and at least one more character; the
   second \s* is greedy but gives a character back when nothing else is left
   for the second group. None when there is no match, else the two groups. *)
RegExpMatch(filename, sep, ignoreCase) ==
    LET n       == Len(filename)
        Fold(s) == IF ignoreCase THEN toLowerCase(s) ELSE s
        At(p)   == /\ p + Len(sep) - 1 < n
                   /\ Fold(SubSeq(filename, p, p + Len(sep) - 1)) = Fold(sep)
        Sep(k)  == {p \in (k + 1)..n :
                       At(p) /\ \A q \in (k + 1)..(p - 1) : IsWhitespace(filename[q])}
        starts  == {k \in 1..n : Sep(k) # {}}
    IN  IF starts = {} THEN None
        ELSE LET k     == CHOOSE i \in starts : \A j \in starts : i <= j
                 p     == CHOOSE i \in Sep(k) : \A j \in Sep(k) : i <= j
                 e     == p + Len(sep)
                 solid == {i \in e..n : ~IsWhitespace(filename[i])}
                 from  == IF solid = {} THEN n
                          ELSE CHOOSE i \in solid : \A j \in solid : i <= j
             IN  Some([first |-> SubSeq(filename, 1, k), second |-> SubSeq(filename, from, n)])

(* the patterns, in the order of the array *)
AuthorPatterns ==
    << [sep |-> <<"-">>, ignoreCase |-> FALSE],
       [sep |-> <<"b", "y">>, ignoreCase |-> TRUE] >>

(* match[2]?.trim() || match[1]?.trim() *)
SecondOrFirst(match) ==
    IF trim(match.second) # <<>> THEN trim(match.second) ELSE trim(match.first)

RECURSIVE ExtractFrom(_, _)
(* the for loop over the patterns from pattern i on; undefined after the last *)
ExtractFrom(i, filename) ==
    IF i > Len(AuthorPatterns) THEN None
    ELSE LET match == RegExpMatch(filename, AuthorPatterns[i].sep, AuthorPatterns[i].ignoreCase)
         IN  IF IsSome(match) THEN Some(SecondOrFirst(Get(match)))
             ELSE ExtractFrom(i + 1, filename)

(* FileService.extractAuthorFromFilename(filename) *)
extractAuthorFromFilename(filename) == ExtractFrom(1, filename)

TonyRobbinsFile ==
    <<"T", "o", "n", "y", " ", "R", "o", "b", "b", "i", "n", "s", " ", "-", " ", "A", "w", "a", "k", "e", "n", " ", "t", "h", "e", " ", "G", "i", "a", "n", "t", " ", "W", "i", "t", "h", "i", "n", ".", "t", "x", "t">>

AtomicHabitsFile ==
    <<"A", "t", "o", "m", "i", "c", " ", "H", "a", "b", "i", "t", "s", " ", "b", "y", " ", "J", "a", "m", "e", "s", " ", "C", "l", "e", "a", "r", ".", "t", "x", "t">>

(* file names of both shapes, of neither, of both at once, and with the
   separator inside a word or followed by white space only *)
FilenameInputs ==
    { TonyRobbinsFile,
      AtomicHabitsFile,
      <<"n", "o", "t", "e", "s", ".", "t", "x", "t">>,
      <<"S", "t", "a", "n", "d", " ", "B", "y", " ", "M", "e", " ", "-", " ", "B", "e", "n", " ", "K", "i", "n", "g", ".", "t", "x", "t">>,
      <<"R", "u", "b", "y", ".", "t", "x", "t">>,
      <<"D", "u", "n", "e", " ", "-", " ", " ">>,
      <<"E", "m", "m", "a", " ", "B", "Y", " ", "A", "u", "s", "t", "e", "n">>,
      <<"a", "-", "b">> }

(* addBook computing the author of the picked file *)
ExtractAuthor ==
    /\ IsSome(callInput)
    /\ Get(callInput).fn = "extractAuthorFromFilename"
    /\ callOutput = None
    /\ callOutput' = Some(extractAuthorFromFilename(Get(callInput).filename))
    /\ UNCHANGED callInput
    /\ UNCHANGED <<storageVars, initVars, now, updVars, setVars, lastGet, aiVars, ttsVars,
                   rdrVars, favVars, moreVars>>

(* The orders in which getAllBooks can return the books: ORDER BY title, and the
   titles, which the rows here do not carry, are whatever the files were called *)
TitleOrders(rows) ==
    {s \in [1..Cardinality(rows) -> rows] : \A r \in rows : \E i \in DOMAIN s : s[i] = r}

(* genreCount[genre] = (genreCount[genre] || 0) + 1, the keys of the object in
   the order they were first assigned *)
CountGenre(genreCount, genre) ==
    IF \E k \in 1..Len(genreCount) : genreCount[k].genre = genre
    THEN [k \in 1..Len(genreCount) |->
             IF genreCount[k].genre = genre
             THEN [genreCount[k] EXCEPT !.count = @ + 1] ELSE genreCount[k]]
    ELSE Append(genreCount, [genre |-> genre, count |-> 1])

RECURSIVE CountTags(_, _, _)
(* book.genreTags.forEach from tag i on *)
CountTags(genreTags, i, genreCount) ==
    IF i > Len(genreTags) THEN genreCount
    ELSE CountTags(genreTags, i + 1, CountGenre(genreCount, genreTags[i]))

RECURSIVE AnalyzeFrom(_, _, _)
(* books.forEach from book i on *)
AnalyzeFrom(library, i, genreCount) ==
    IF i > Len(library) THEN genreCount
    ELSE AnalyzeFrom(library, i + 1, CountTags(library[i].genreTags, 1, genreCount))

(* RecommendationService.analyzeGenrePreferences(books) *)
analyzeGenrePreferences(library) == AnalyzeFrom(library, 1, <<>>)

(* bookDatabase: the genres in the order declared, each with the ids of its books *)
bookDatabase ==
    << [genre |-> "finance",   books |-> <<"fin-1", "fin-2">>],
       [genre |-> "business",  books |-> <<"bus-1", "bus-2">>],
       [genre |-> "fiction",   books |-> <<"fic-1">>],
       [genre |-> "technical", books |-> <<"tech-1">>] >>

(* the position of a genre in bookDatabase, one past the end when it has none *)
CatalogPosition(genre) ==
    IF \E k \in 1..Len(bookDatabase) : bookDatabase[k].genre = genre
    THEN CHOOSE k \in 1..Len(bookDatabase) : bookDatabase[k].genre = genre
    ELSE Len(bookDatabase) + 1

(* .sort(([,a], [,b]) => b - a): entry i comes before entry j when its count is
   larger, and entries of equal count keep their order (the sort is stable) *)
BeforeByCount(entries, i, j) ==
    \/ entries[i].count > entries[j].count
    \/ entries[i].count = entries[j].count /\ i < j

(* the entries sorted *)
Sorted(entries) ==
    LET Rank(i) == 1 + Cardinality({j \in 1..Len(entries) : BeforeByCount(entries, j, i)})
    IN  [r \in 1..Len(entries) |-> entries[CHOOSE i \in 1..Len(entries) : Rank(i) = r]]

(* array.slice(0, n) *)
SliceTo(array, n) == SubSeq(array, 1, IF Len(array) < n THEN Len(array) ELSE n)

(* Object.entries(genreFrequency).sort(...).slice(0, 3).map(([genre]) => genre) *)
TopGenres(genreFrequency) ==
    LET top == SliceTo(Sorted(genreFrequency), 3)
    IN  [k \in 1..Len(top) |-> top[k].genre]

(* bookDatabase[genre] || [] *)
GenreBooks(genre) ==
    IF CatalogPosition(genre) <= Len(bookDatabase)
    THEN bookDatabase[CatalogPosition(genre)].books ELSE <<>>

RECURSIVE PushGenres(_, _, _)
(* topGenres.forEach(genre => recommendations.push(...genreBooks)) *)
PushGenres(topGenres, i, recommendations) ==
    IF i > Len(topGenres) THEN recommendations
    ELSE PushGenres(topGenres, i + 1, recommendations \o GenreBooks(topGenres[i]))

RECURSIVE Flat(_, _)
(* Object.values(bookDatabase).flat() *)
Flat(i, all) ==
    IF i > Len(bookDatabase) THEN all ELSE Flat(i + 1, all \o bookDatabase[i].books)

(* array.filter(book => !recommendations.some(rec => rec.id === book.id)) *)
NotRecommended(array, recommendations) ==
    SelectSeq(array, LAMBDA id : \A k \in 1..Len(recommendations) : recommendations[k] # id)

(* RecommendationService.generateRecommendations(genreFrequency), the books by id *)
generateRecommendations(genreFrequency) ==
    LET fromTop   == PushGenres(TopGenres(genreFrequency), 1, <<>>)
        remaining == IF Len(fromTop) < 6
                     THEN SliceTo(NotRecommended(Flat(1, <<>>), fromTop), 6 - Len(fromTop))
                     ELSE <<>>
    IN  SliceTo(fromTop \o remaining, 8)

(* genreTags as detectGenre gives them (in the order of its keyword table, or
   "general" alone), and none *)
LibraryTagInputs ==
    { None, Some(<<"general">>), Some(<<"finance">>), Some(<<"fiction">>),
      Some(<<"finance", "business">>), Some(<<"technical", "fiction">>),
      Some(<<"fiction", "mystery", "history">>) }

(* a book added to the library with any of these genreTags *)
AddTaggedBook ==
    \E g \in LibraryTagInputs : CreateBook(0, "txt", 1, g)

(* RecommendationService.getRecommendations(): the result is kept with the top
   genres it was built from; any failure is caught and gives an empty list *)
GetRecommendations ==
    /\ IF getAllBooks.threw
       THEN callOutput' = Some([topGenres |-> <<>>, recommendations |-> <<>>])
       ELSE \E library \in TitleOrders(getAllBooks.value) :
               callOutput' =
                   Some([topGenres |-> TopGenres(analyzeGenrePreferences(library)),
                         recommendations |->
                             generateRecommendations(analyzeGenrePreferences(library))])
    /\ UNCHANGED callInput
    /\ UNCHANGED <<storageVars, initVars, now, updVars, setVars, lastGet, aiVars, ttsVars,
                   rdrVars, favVars, moreVars>>

----------------------------------------------------------------------------
(* The chat history: ReaderScreen.askAI and the chatHistory table.  A reader
   screen disables its Ask button while its own request is loading; a screen
   that was left and opened again starts with nothing loading, so a request of
   the screen before it can still be in flight.  The answer of the AI
   collaborator arrives at a later reading of the clock than the request. *)

NoAskCall ==
    [pc |-> "idle", attached |-> FALSE, bookId |-> "", page |-> 0, sub |-> None,
     sentAt |-> 0, result |-> None]

(* aiLoading of the reader screen that is open *)
aiLoading == \E c \in Callers : askCalls[c].attached

(* the row addChatMessage inserts *)
ChatRow(id, bookId, page, t) ==
    [id |-> id, bookId |-> bookId, page |-> page, createdAt |-> t]

(* DELETE FROM chatHistory WHERE bookId = ? *)
DeleteChatOfBook(table, bookId) == {r \in table : r.bookId # bookId}

(* getChatHistory(bookId): the rows WHERE bookId = ? *)
getChatHistory(bookId) ==
    IF DbGuardFails THEN Throw(NotInitialized)
    ELSE IF "chatHistory" \notin tables THEN Throw(SqlError)
    ELSE Return({r \in chatHistory : r.bookId = bookId})

(* askAI up to the first await of askQuestion: getCurrentSubscription; a throw is
   caught by askQuestion and returned as a failure *)
AskAI(c) ==
    /\ rdrPc = "ready" /\ IsSome(rdrBook)
    /\ ~aiLoading
    /\ askCalls[c].pc = "idle"
    /\ askCalls' = [askCalls EXCEPT ![c] =
         IF getCurrentSubscription.threw
         THEN [NoAskCall EXCEPT !.pc = "answered", !.attached = TRUE,
                                !.bookId = Get(rdrBook).id, !.page = currentPage,
                                !.result = Some(AIFailure(getCurrentSubscription.error))]
         ELSE [NoAskCall EXCEPT !.pc = "subscription", !.attached = TRUE,
                                !.bookId = Get(rdrBook).id, !.page = currentPage,
                                !.sub = getCurrentSubscription.value]]
    /\ UNCHANGED <<chatHistory, upd2Vars, provVars, stopPc>>
    /\ UNCHANGED <<storageVars, initVars, now, updVars, setVars, lastGet, callVars, aiVars,
                   ttsVars, rdrVars, favVars>>

(* askQuestion: the entitlement check, the api key check and the call of fetch *)
AskAICheck(c) ==
    /\ askCalls[c].pc = "subscription"
    /\ askCalls' = [askCalls EXCEPT ![c] =
         IF ~HasAI(askCalls[c].sub)
         THEN [@ EXCEPT !.pc = "answered", !.sub = None,
                        !.result = Some(AIFailure(AISubscriptionRequired))]
         ELSE IF apiKey = ""
         THEN [@ EXCEPT !.pc = "answered", !.sub = None,
                        !.result = Some(AIFailure(AINotConfigured))]
         ELSE [@ EXCEPT !.pc = "fetch", !.sub = None, !.sentAt = now]]
    /\ UNCHANGED <<chatHistory, upd2Vars, provVars, stopPc>>
    /\ UNCHANGED <<storageVars, initVars, now, updVars, setVars, lastGet, callVars, aiVars,
                   ttsVars, rdrVars, favVars>>

(* the response of the AI collaborator: ok, or not ok / a network error.  It
   arrives at a reading t of the clock later than the one the request was sent at. *)
AskAIResponse(c) ==
    \E ok \in BOOLEAN, t \in 0..MaxAnswerTime :
        /\ askCalls[c].pc = "fetch"
        /\ t >= now /\ t > askCalls[c].sentAt
        /\ now' = t
        /\ askCalls' = [askCalls EXCEPT ![c] =
             [@ EXCEPT !.pc = "answered", !.sentAt = 0,
                       !.result = IF ok THEN Some(AISuccess)
                                  ELSE Some(AIFailure(AIRequestFailed))]]
        /\ UNCHANGED <<chatHistory, upd2Vars, provVars, stopPc>>
        /\ UNCHANGED <<storageVars, initVars, updVars, setVars, lastGet, callVars, aiVars,
                       ttsVars, rdrVars, favVars>>

(* addChatMessage fails: no database, no table, or the id (Date.now()) is the
   primary key of a row already there *)
AddChatMessageThrows ==
    \/ DbGuardFails
    \/ "chatHistory" \notin tables
    \/ RowsWithId(chatHistory, TimestampId(now)) # {}

(* askAI once askQuestion has returned: a success is saved with addChatMessage
   and the history is loaded again; a failure, or a throw of addChatMessage, is
   shown and the call is over *)
AskAISave(c) ==
    /\ askCalls[c].pc = "answered"
    /\ IF Get(askCalls[c].result).success /\ ~AddChatMessageThrows
       THEN /\ chatHistory' = chatHistory \cup
                  {ChatRow(TimestampId(now), askCalls[c].bookId, askCalls[c].page, now)}
            /\ askCalls' = [askCalls EXCEPT ![c] = [@ EXCEPT !.pc = "reload"]]
       ELSE /\ askCalls' = [askCalls EXCEPT ![c] = NoAskCall]
            /\ UNCHANGED chatHistory
    /\ UNCHANGED <<upd2Vars, provVars, stopPc>>
    /\ UNCHANGED <<storageVars, initVars, now, updVars, setVars, lastGet, callVars, aiVars,
                   ttsVars, rdrVars, favVars>>

(* loadChatHistory has resolved or was caught; setAiLoading(false) *)
AskAIReloaded(c) ==
    /\ askCalls[c].pc = "reload"
    /\ askCalls' = [askCalls EXCEPT ![c] = NoAskCall]
    /\ UNCHANGED <<chatHistory, upd2Vars, provVars, stopPc>>
    /\ UNCHANGED <<storageVars, initVars, now, updVars, setVars, lastGet, callVars, aiVars,
                   ttsVars, rdrVars, favVars>>

(* router.back() with requests loading: they go on without a screen *)
LeaveReader ==
    /\ ReaderUnmounts
    /\ askCalls' = [c \in Callers |-> [askCalls[c] EXCEPT !.attached = FALSE]]
    /\ UNCHANGED <<chatHistory, upd2Vars, provVars, stopPc>>
    /\ UNCHANGED <<storageVars, initVars, now, updVars, setVars, lastGet, callVars, aiVars,
                   ttsVars, favVars>>

(* clearChatHistory(bookId) *)
ClearChatHistory(bookId) ==
    /\ ~DbGuardFails
    /\ "chatHistory" \in tables
    /\ chatHistory' = DeleteChatOfBook(chatHistory, bookId)
    /\ UNCHANGED <<askCalls, upd2Vars, provVars, stopPc>>
    /\ UNCHANGED <<storageVars, initVars, now, updVars, setVars, lastGet, callVars, aiVars,
                   ttsVars, rdrVars, favVars>>

(* db.clearChatHistory called for any of the books *)
StoreClearChatHistory ==
    \E bookId \in BookIds : ClearChatHistory(bookId)

(* the Basic tier is bought *)
UpgradeToBasic ==
    UpdateSubscriptionCall(UpgradePartial(Get(FindTier("basic")), now))

(* the reader's requests, for any caller *)
AskAICalls ==
    \E c \in Callers :
        \/ AskAI(c)
        \/ AskAICheck(c)
        \/ AskAIResponse(c)
        \/ AskAISave(c)
        \/ AskAIReloaded(c)

----------------------------------------------------------------------------
(* The state after construction: an empty SQLite file, nothing running *)

InitBase ==
    /\ tables = {} /\ categories = {} /\ books = {}
    /\ userSubscription = {} /\ settings = {}
    /\ files = <<>>
    /\ db = "null" /\ initPc = "idle" /\ initIdx = 1 /\ initCompleted = FALSE
    /\ now = 0
    /\ updPc = "idle" /\ updPartial = None /\ updCurrent = None
    /\ setPc = "idle" /\ setPartial = None /\ setCurrent = None
    /\ lastGet = [op |-> "none"]
    /\ callInput = None /\ callOutput = None
    /\ aiPc = "idle" /\ aiSub = None /\ aiResult = None /\ fetchCalls = 0
    /\ ttsPc = "idle" /\ ttsNatural = FALSE /\ ttsSub = None
    /\ ttsResult = None /\ isSpeaking = FALSE /\ engine = <<>>
    /\ rdrBook = None /\ currentPage = 0 /\ totalPages = 0
    /\ rdrPc = "closed" /\ rdrPage = 0 /\ markCalls = 0
    /\ favPc = [c \in Callers |-> "idle"]
    /\ favId = [c \in Callers |-> None]
    /\ favRead = [c \in Callers |-> FALSE]
    /\ chatHistory = {} /\ askCalls = [c \in Callers |-> NoAskCall]
    /\ upd2Pc = "idle" /\ upd2Partial = None /\ upd2Current = None
    /\ provPc = "new" /\ mounted = FALSE /\ isReady = FALSE /\ error = None
    /\ stopPc = "idle"

(* EXPO_PUBLIC_OPENROUTER_API_KEY may be unset; Platform.OS is web or a native one *)
Init == InitBase /\ apiKey \in {"", "key"} /\ platform \in {"web", "native"}

(* the same, where neither the AI service nor the speech engine takes part *)
InitStore == InitBase /\ apiKey = "" /\ platform = "native"

InitAI == InitBase /\ apiKey \in {"", "key"} /\ platform = "native"

InitTTS == InitBase /\ apiKey = "" /\ platform \in {"web", "native"}

InitSteps ==
    \/ InitOpened
    \/ InitCreateTable
    \/ InitSeedCategory
    \/ InitSeedSubscription
    \/ InitSeedSettings

(* init() called at any time, also again, and failing at any statement *)
InitActions ==
    \/ InitCall
    \/ InitSteps
    \/ InitFails

(* The store: init, the singletons and the categories *)
NextStore ==
    \/ InitActions
    \/ UpgradeSubscription
    \/ CancelSubscription
    \/ UpdateSubscriptionWrite
    \/ UpdateSettingsCall
    \/ UpdateSettingsWrite
    \/ CreateCategory
    \/ DeleteCategory

SpecStore == InitStore /\ [][NextStore]_vars

(* The store during init(), read by the screens *)
NextInit ==
    \/ InitActions
    \/ ScreenGetSubscription
    \/ ScreenGetSettings

SpecInit == InitStore /\ [][NextInit]_vars

SubscriptionActions ==
    \/ UpgradeSubscription
    \/ CancelSubscription
    \/ UpdateSubscriptionWrite

(* The AI service over the store *)
NextAI ==
    \/ ProviderInit
    \/ InitSteps
    \/ SubscriptionActions
    \/ AskQuestionCall
    \/ AskQuestionCheck
    \/ AskQuestionResponse

SpecAI == InitAI /\ [][NextAI]_vars

(* The TTS service over the store *)
NextTTS ==
    \/ ProviderInit
    \/ InitSteps
    \/ SubscriptionActions
    \/ SpeakCall
    \/ SpeakCheck
    \/ SpeakStopped
    \/ SpeakVoices
    \/ EngineStart
    \/ EngineDone

SpecTTS == InitTTS /\ [][NextTTS]_vars

(* The state once init() has completed on a fresh install, at time 0 *)
InitReadyStore ==
    /\ tables = {TableOrder[i] : i \in 1..Len(TableOrder)}
    /\ categories = {CategoryRow(DefaultCategories[i], 0) : i \in 1..Len(DefaultCategories)}
    /\ books = {}
    /\ userSubscription = {DefaultSubscriptionRow(0)}
    /\ settings = {DefaultSettingsRow}
    /\ files = <<>>
    /\ db = "open" /\ initPc = "idle" /\ initIdx = 1 /\ initCompleted = TRUE
    /\ now = 0
    /\ updPc = "idle" /\ updPartial = None /\ updCurrent = None
    /\ setPc = "idle" /\ setPartial = None /\ setCurrent = None
    /\ lastGet = [op |-> "none"]
    /\ aiPc = "idle" /\ aiSub = None /\ aiResult = None /\ fetchCalls = 0
    /\ ttsPc = "idle" /\ ttsNatural = FALSE /\ ttsSub = None
    /\ ttsResult = None /\ isSpeaking = FALSE /\ engine = <<>>
    /\ platform = "native"
    /\ rdrBook = None /\ currentPage = 0 /\ totalPages = 0
    /\ rdrPc = "closed" /\ rdrPage = 0 /\ markCalls = 0
    /\ favPc = [c \in Callers |-> "idle"]
    /\ favId = [c \in Callers |-> None]
    /\ favRead = [c \in Callers |-> FALSE]
    /\ chatHistory = {} /\ askCalls = [c \in Callers |-> NoAskCall]
    /\ upd2Pc = "idle" /\ upd2Partial = None /\ upd2Current = None
    /\ provPc = "settled" /\ mounted = TRUE /\ isReady = TRUE /\ error = None
    /\ stopPc = "idle"

(* ... with no api key configured *)
InitReadyState ==
    InitReadyStore /\ apiKey = ""

(* ... with no function call made *)
InitReady ==
    InitReadyState /\ callInput = None /\ callOutput = None

(* The book operations of the store *)
NextBooks ==
    \/ Tick
    \/ AddBook
    \/ StoreUpdateBookProgress
    \/ StoreUpdateBookCategory
    \/ StoreMarkBookCompleted
    \/ StoreToggleBookFavorite
    \/ StoreToggleBookFavoriteWrite

SpecBooks == InitReady /\ [][NextBooks]_vars

(* Books created with any genreTags and re-filed *)
NextCatalog ==
    \/ Tick
    \/ StoreCreateBook
    \/ StoreUpdateBookCategory

SpecCatalog == InitReady /\ [][NextCatalog]_vars

(* addBook's two pure helpers: detectGenre called on any of the titles and
   contents, extractAuthorFromFilename on any of the file names *)
InitGenre ==
    /\ InitReadyState
    /\ callInput \in
          {Some([fn |-> "detectGenre", title |-> t, content |-> c]) :
               t \in TitleInputs, c \in GenreContentInputs}
          \cup {Some([fn |-> "extractAuthorFromFilename", filename |-> f]) :
                    f \in FilenameInputs}
    /\ callOutput = None

NextGenre ==
    \/ DetectGenre
    \/ ExtractAuthor

SpecGenre == InitGenre /\ [][NextGenre]_vars

(* The reader paginating the text of any of the input shapes *)
InitPagination ==
    /\ InitReadyState
    /\ callInput \in {Some([fn |-> "loadBook", content |-> c]) : c \in ContentInputs}
    /\ callOutput = None

NextPagination ==
    \/ LoadContent
    \/ RenderPage

SpecPagination == InitPagination /\ [][NextPagination]_vars

(* The partial updates of the two singletons on an initialized store *)
NextMerge ==
    \/ Tick
    \/ StoreUpdateSubscription
    \/ UpgradeSubscription
    \/ CancelSubscription
    \/ UpdateSubscriptionWrite
    \/ UpdateSettingsCall
    \/ UpdateSettingsWrite

SpecMerge == InitReady /\ [][NextMerge]_vars

(* Favorites toggled from the library, two calls possibly in flight *)
NextFavorite ==
    \/ Tick
    \/ AddBook
    \/ TapFavorite
    \/ TapFavoriteWrite

SpecFavorite == InitReady /\ [][NextFavorite]_vars

(* The reader screen over the books of the store *)
NextReader ==
    \/ Tick
    \/ ImportBook
    \/ LoadBook
    \/ CloseReader
    \/ PressPrevious
    \/ PressNext
    \/ GoToPageCompletion

SpecReader == InitReady /\ [][NextReader]_vars

(* The explore screen asking for recommendations over a growing library *)
NextRecommend ==
    \/ Tick
    \/ AddTaggedBook
    \/ GetRecommendations

SpecRecommend == InitReady /\ [][NextRecommend]_vars

(* The state once init() has completed, with the api key set *)
InitReadyWithKey ==
    InitReadyStore /\ apiKey = "key" /\ callInput = None /\ callOutput = None

(* The reader asking the AI about the books of a library *)
NextChat ==
    \/ Tick
    \/ AddBook
    \/ LoadBook
    \/ LeaveReader
    \/ UpgradeToBasic
    \/ UpdateSubscriptionWrite
    \/ AskAICalls
    \/ StoreClearChatHistory

SpecChat == InitReadyWithKey /\ [][NextChat]_vars

(* A subscription bought and left to run out, with the AI and the voice in use *)
NextExpiry ==
    \/ Tick
    \/ ExpiryPasses
    \/ UpgradeToBasic
    \/ UpdateSubscriptionWrite
    \/ AskQuestionCall
    \/ AskQuestionCheck
    \/ AskQuestionResponse
    \/ SpeakCall
    \/ SpeakCheck
    \/ SpeakStopped
    \/ SpeakVoices
    \/ EngineStart
    \/ EngineDone

SpecExpiry == InitReadyWithKey /\ [][NextExpiry]_vars

(* speak and stop called at any moment on a device, and the speech engine *)
NextSpeech ==
    \/ UpgradeToBasic
    \/ UpdateSubscriptionWrite
    \/ SpeakCall
    \/ SpeakCheck
    \/ SpeakStopped
    \/ SpeakVoices
    \/ StopCall
    \/ StopDone
    \/ EngineStart
    \/ EngineDone

SpecSpeech == InitReady /\ [][NextSpeech]_vars

(* The provider from its mount on: its init() runs, fails or not, and the
   provider may unmount at any moment *)
NextProvider ==
    \/ Tick
    \/ ProviderMount
    \/ InitSteps
    \/ InitFails
    \/ ProviderSettled
    \/ ProviderUnmount

SpecProvider == InitStore /\ [][NextProvider]_vars

(* Two callers upgrading and cancelling at once, after init() *)
NextTiers ==
    \/ Tick
    \/ UpgradeSubscription
    \/ CancelSubscription
    \/ UpdateSubscriptionWrite
    \/ SecondUpgradeSubscription
    \/ SecondCancelSubscription
    \/ SecondUpdateSubscriptionWrite

SpecTiers == InitReady /\ [][NextTiers]_vars

(* A reader who opens a book and keeps pressing the next-page button: the
   button is pressed whenever it is enabled, and a goToPage that was started
   runs to its end *)
NextReading ==
    \/ Tick
    \/ ImportBook
    \/ LoadBook
    \/ PressNext
    \/ GoToPageCompletion

SpecReading ==
    /\ InitReady
    /\ [][NextReading]_vars
    /\ WF_vars(PressNext)
    /\ WF_vars(GoToPageCompletion)

----------------------------------------------------------------------------
(* The claims *)

(* C1: askQuestion never calls fetch unless the subscription record it read has
   hasAI = true, and when that record is absent or has hasAI = false it returns
   the subscription-required failure without calling fetch. *)
C1_EntitlementBeforeFetch ==
    [][ /\ (fetchCalls' # fetchCalls) =>
              (aiPc = "subscription" /\ IsSome(aiSub) /\ Get(aiSub).hasAI = TRUE)
        /\ ( /\ aiPc = "subscription"
             /\ aiPc' # "subscription"
             /\ ~(IsSome(aiSub) /\ Get(aiSub).hasAI = TRUE) ) =>
              ( /\ aiResult' = Some([success |-> FALSE, error |-> AISubscriptionRequired])
                /\ fetchCalls' = fetchCalls
                /\ aiPc' = "idle" )
      ]_vars

(* C1 witness: askQuestion was refused on a stored free-tier record, no fetch made *)
C1_Witness ==
    /\ aiResult = Some([success |-> FALSE, error |-> AISubscriptionRequired])
    /\ fetchCalls = 0
    /\ \E r \in userSubscription : r.hasAI = 0

(* C2: speak with useNaturalVoice = true on a subscription read without
   hasNaturalTTS throws the subscription-required error, hands no utterance to the
   speech engine, and leaves isSpeaking false. *)
C2_NaturalVoiceRefusedNotDegraded ==
    [][ ( /\ ttsPc = "subscription"
          /\ ttsPc' # "subscription"
          /\ ttsNatural
          /\ ~(IsSome(ttsSub) /\ Get(ttsSub).hasNaturalTTS = TRUE) ) =>
            ( /\ ttsResult' = Some([natural |-> TRUE, error |-> Some(TTSSubscriptionRequired)])
              /\ engine' = engine
              /\ isSpeaking' = FALSE
              /\ ttsPc' = "idle" )
      ]_vars

(* C2 witness: a natural-voice request was refused on a stored free-tier record *)
C2_Witness ==
    /\ ttsResult = Some([natural |-> TRUE, error |-> Some(TTSSubscriptionRequired)])
    /\ ~isSpeaking
    /\ \E r \in userSubscription : r.hasNaturalTTS = 0

(* C3: speak with useNaturalVoice = false never fails on account of the
   subscription, whatever the state of the subscription record and of the store. *)
C3_RoboticVoiceAlwaysPermitted ==
    (IsSome(ttsResult) /\ ~Get(ttsResult).natural) => ~IsSome(Get(ttsResult).error)

(* C4: a store accessor called before an init() has completed fails with
   "Database not initialized". *)
C4_NotInitializedUntilInitCompletes ==
    (lastGet.op # "none" /\ ~lastGet.initCompleted) =>
        lastGet.result = Throw(NotInitialized)

(* C5: once init() has completed there is exactly one userSubscription row and
   exactly one settings row, both with id "1", and getUserSubscription and
   getSettings return a record. *)
C5_SingletonRows ==
    initCompleted =>
        /\ Cardinality(userSubscription) = 1
        /\ \A r \in userSubscription : r.id = "1"
        /\ Cardinality(settings) = 1
        /\ \A r \in settings : r.id = "1"
        /\ ~getUserSubscription.threw /\ IsSome(getUserSubscription.value)
        /\ ~getSettings.threw /\ IsSome(getSettings.value)

(* C5 witness: after init, the subscription was upgraded and a setting changed *)
C5_Witness ==
    /\ initCompleted
    /\ updPc = "idle" /\ setPc = "idle"
    /\ \E r \in userSubscription : r.tier = "premium"
    /\ \E r \in settings : r.theme = "dark"

(* C6: a step of init() overwrites and removes no existing row of categories,
   userSubscription or settings, adds a row only under an id that was absent, and
   leaves at most one row per id. *)
C6_InitIdempotent ==
    [][ (InitSteps \/ InitCall \/ InitFails) =>
          \A tt \in { <<categories, categories'>>,
                      <<userSubscription, userSubscription'>>,
                      <<settings, settings'>> } :
              /\ tt[1] \subseteq tt[2]
              /\ \A r \in tt[2] \ tt[1] : RowsWithId(tt[1], r.id) = {}
              /\ \A r1, r2 \in tt[2] : r1.id = r2.id => r1 = r2
      ]_vars

(* C6 witness: init() runs again, past its subscription insert, on a store whose
   subscription was upgraded, whose settings were changed and that holds a
   category the user added *)
C6_Witness ==
    /\ initCompleted
    /\ initPc = "settings"
    /\ \E r \in userSubscription : r.tier = "pro"
    /\ \E r \in settings : r.autoSync = 1
    /\ \E r \in categories : r.name = "Custom"

(* C7: every stored book with isCompleted = true is in the "Read" category "4". *)
C7_CompletedImpliesReadCategory ==
    \A r \in books : Boolean(r.isCompleted) => r.categoryId = Some("4")

(* C8: markBookCompleted(id) on an existing book leaves getBookById(id) completed
   and in category "4", whatever its category and completion were, and changes no
   other book. *)
C8_MarkBookCompleted ==
    [][ \A id \in BookIds :
          MarkBookCompleted(id) =>
            /\ IsSome(GetBook(books', id))
            /\ Get(GetBook(books', id)).isCompleted = TRUE
            /\ Get(GetBook(books', id)).categoryId = Some("4")
            /\ \A r \in books : r.id # id => r \in books'
            /\ Cardinality(books') = Cardinality(books)
      ]_vars

(* C8 witness: a book moved to another category was marked completed and is in
   category "4", next to a book that is not completed *)
C8_Witness ==
    /\ \E r \in books : /\ Boolean(r.isCompleted)
                        /\ r.categoryId = Some("4")
                        /\ r.updatedAt > r.createdAt
    /\ \E r \in books : ~Boolean(r.isCompleted) /\ r.categoryId = Some("1")

(* C9: every stored book with totalPages > 0 has lastPageRead < totalPages, the
   reader's goToPage being the only writer of the progress. *)
C9_ProgressBelowTotalPages ==
    \A r \in books : r.totalPages > 0 => r.lastPageRead < r.totalPages

(* C10: in one reader session markBookCompleted is invoked at most once, and never
   for a book that was completed when it was opened. *)
C10_CompletedAtMostOnce ==
    /\ markCalls <= 1
    /\ (IsSome(rdrBook) /\ Get(rdrBook).isCompleted) => markCalls = 0

(* C11: a toggleBookFavorite(id) whose UPDATE runs while the stored isFavorite is
   still the one it read (no step ran in between) leaves isFavorite the negation
   of its prior value, changes only isFavorite and updatedAt of that book, and
   changes no other book. *)
C11_ToggleNegates ==
    [][ \A c \in Callers :
          ( /\ ToggleBookFavoriteWrite(c)
            /\ Get(GetBook(books, Get(favId[c]))).isFavorite = favRead[c] ) =>
            LET id     == Get(favId[c])
                before == Get(GetBook(books, id))
                after  == Get(GetBook(books', id))
            IN  /\ after.isFavorite = ~before.isFavorite
                /\ after = [before EXCEPT !.isFavorite = ~before.isFavorite,
                                          !.updatedAt = now]
                /\ \A r \in books : r.id # id => r \in books'
                /\ Cardinality(books') = Cardinality(books)
      ]_vars

(* C11 witness: with no call in flight, one book has been toggled to favorite
   next to a book that has not *)
C11_Witness ==
    /\ \A c \in Callers : favPc[c] = "idle"
    /\ \E r \in books : Boolean(r.isFavorite) /\ r.updatedAt > r.createdAt
    /\ \E r \in books : ~Boolean(r.isFavorite)

(* C12: the UPDATE of toggleBookFavorite stores the negation of the value the call
   read; when another call wrote since that read, the stored value is not flipped:
   that toggle is lost, and the two calls together leave the negation of the
   initial value. *)
C12_LostToggle ==
    [][ \A c \in Callers :
          ToggleBookFavoriteWrite(c) =>
            LET id     == Get(favId[c])
                before == Get(GetBook(books, id))
                after  == Get(GetBook(books', id))
            IN  /\ after.isFavorite = ~favRead[c]
                /\ before.isFavorite # favRead[c] => after.isFavorite = before.isFavorite
      ]_vars

(* C12 witness: both calls read isFavorite = false of the same book, one has
   written true, and the other is about to write true again *)
C12_Witness ==
    \E c, d \in Callers :
        /\ c # d
        /\ favPc[c] = "idle"
        /\ favPc[d] = "read" /\ favRead[d] = FALSE
        /\ \E r \in books : r.id = Get(favId[d]) /\ r.isFavorite = 1

(* C13: an updateSubscription(partial) or updateSettings(partial) whose UPDATE runs
   on the record it read (nothing ran in between) leaves every field present in
   partial with the supplied value and every other field with its previous value. *)
C13_PartialMergedOverCurrent ==
    [][ /\ ( /\ UpdateSubscriptionWrite
             /\ IsSome(updCurrent)
             /\ getUserSubscription.value = updCurrent ) =>
              LET before  == Get(updCurrent)
                  partial == Get(updPartial)
                  after   == Get(getUserSubscription.value)'
              IN  /\ \A f \in DOMAIN partial : after[f] = partial[f]
                  /\ \A f \in (DOMAIN before) \ (DOMAIN partial) : after[f] = before[f]
                  /\ DOMAIN after = DOMAIN before
        /\ ( /\ UpdateSettingsWrite
             /\ IsSome(setCurrent)
             /\ getSettings.value = setCurrent ) =>
              LET before  == Get(setCurrent)
                  partial == Get(setPartial)
                  after   == Get(getSettings.value)'
              IN  /\ \A f \in DOMAIN partial : after[f] = partial[f]
                  /\ \A f \in (DOMAIN before) \ (DOMAIN partial) : after[f] = before[f]
                  /\ DOMAIN after = DOMAIN before
      ]_vars

(* C13 witness: a premium subscription whose price alone was then overwritten by a
   two-field partial, and settings with one key changed *)
C13_Witness ==
    /\ updPc = "idle" /\ setPc = "idle"
    /\ \E r \in userSubscription :
          /\ r.tier = "basic" /\ r.price = 5
          /\ r.booksPerMonth = 2 /\ IsSome(r.expiresAt)
    /\ \E r \in settings : r.theme = "dark" /\ r.autoSync = 0

(* C14: when upgradeSubscription(tier) returns true, the stored subscription has the
   price, features, booksPerMonth, hasAI and hasNaturalTTS of that tier of the
   catalog, and expiresAt is the time of the call plus 30 days. *)
C14_UpgradeStoresTier ==
    [][ /\ (UpgradeSubscription /\ updPc' = "read") =>
              Get(updPartial').expiresAt = Some(now + ExpiryDays)
        /\ (UpdateSubscriptionWrite /\ Get(updPartial).tier \in PaidTierIds) =>
              LET partial == Get(updPartial)
                  tier    == Get(FindTier(partial.tier))
                  after   == getUserSubscription'
              IN  /\ ~after.threw
                  /\ IsSome(after.value)
                  /\ Get(after.value).tier = tier.id
                  /\ Get(after.value).price = tier.price
                  /\ Get(after.value).features = tier.features
                  /\ Get(after.value).booksPerMonth = tier.booksPerMonth
                  /\ Get(after.value).hasAI = tier.hasAI
                  /\ Get(after.value).hasNaturalTTS = tier.hasNaturalTTS
                  /\ Get(after.value).expiresAt = partial.expiresAt
      ]_vars

(* C15: when cancelSubscription() returns true, the stored subscription is the free
   tier (tier free, price 0, booksPerMonth 0, no AI, no natural voice) and its
   expiresAt is cleared. *)
C15_CancelStoresFreeTier ==
    [][ (UpdateSubscriptionWrite /\ Get(updPartial).tier = "free") =>
          LET after == getUserSubscription'
          IN  /\ ~after.threw
              /\ IsSome(after.value)
              /\ Get(after.value).tier = "free"
              /\ Get(after.value).price = 0
              /\ Get(after.value).booksPerMonth = 0
              /\ Get(after.value).hasAI = FALSE
              /\ Get(after.value).hasNaturalTTS = FALSE
              /\ Get(after.value).expiresAt = None
      ]_vars

(* C16: a text of W words has ceil(W / 400) pages, and page p holds exactly the
   words 400p+1 .. 400p+400 of it (as many as there are), for every content,
   with or without leading or trailing whitespace, and for the empty content. *)
C16_Pagination ==
    (IsSome(callInput) /\ Get(callInput).fn = "loadBook" /\ IsSome(callOutput)) =>
        LET W   == Get(callInput).content.words
            out == Get(callOutput)
        IN  /\ out.totalPages = (W + 399) \div 400
            /\ IsSome(out.page) =>
                 LET p    == Get(out.page)
                     last == IF 400 * p + 400 < W THEN 400 * p + 400 ELSE W
                 IN  /\ out.pageContent = [i \in 1..(last - 400 * p) |-> 400 * p + i]
                     /\ Len(out.pageContent) >= 1
                     /\ p < out.totalPages - 1 => Len(out.pageContent) = 400

(* C17: the id a createBook call would generate in any state, Date.now().toString(),
   is the id of no existing book, so that the INSERT succeeds; likewise for the
   other create operations, which generate their ids the same way. *)
C17_GeneratedIdIsFresh ==
    RowsWithId(books, TimestampId(now)) = {}

(* C18: a book created with genreTags g is returned by getBookById, getAllBooks and
   getBooksByCategory with genreTags equal to g, in the same order (the empty
   sequence for an empty or absent g), and stays so whatever is done later. *)
C18_GenreTagsRoundTrip ==
    [][ /\ \A g \in GenreTagInputs :
              CreateBook(0, "txt", 1, g) =>
                LET id       == TimestampId(now)
                    expected == IF IsSome(g) THEN Get(g) ELSE <<>>
                IN  /\ IsSome(GetBook(books', id))
                    /\ Get(GetBook(books', id)).genreTags = expected
                    /\ \E b \in getAllBooks.value' : b.id = id
                    /\ \A b \in getAllBooks.value' : b.id = id => b.genreTags = expected
                    /\ \E b \in getBooksByCategory("2").value' : b.id = id
                    /\ \A b \in getBooksByCategory("2").value' :
                          b.id = id => b.genreTags = expected
        /\ \A r \in books :
              /\ Get(GetBook(books', r.id)).genreTags = Get(GetBook(books, r.id)).genreTags
              /\ \A b \in getAllBooks.value' :
                    b.id = r.id => b.genreTags = Get(GetBook(books, r.id)).genreTags
              /\ \A c \in CategoryInputs \cup {"2"} :
                    \A b \in getBooksByCategory(c).value' :
                        b.id = r.id => b.genreTags = Get(GetBook(books, r.id)).genreTags
      ]_vars

(* C18 witness: a book read back with two tags in the order given, re-filed, next
   to a book created without genreTags that reads back with none *)
C18_Witness ==
    /\ ~getAllBooks.threw
    /\ \E b \in getBooksByCategory("1").value : b.genreTags = <<"business", "finance">>
    /\ \E r \in books : r.genreTags = JSONstringify(<<>>) /\ r.createdAt > 0
    /\ \E b \in getAllBooks.value : b.genreTags = <<>>

(* C19: detectGenre returns a non-empty list without duplicates; a genre of the
   keyword table is in it iff one of its keywords is a substring of the lower-cased
   title or content; the genres are in the order of the table; and the result is
   <<"general">> iff no entry matches, "general" never joining another genre. *)
C19_DetectGenre ==
    (IsSome(callInput) /\ Get(callInput).fn = "detectGenre" /\ IsSome(callOutput)) =>
        LET out     == Get(callOutput)
            title   == toLowerCase(Get(callInput).title)
            content == IF IsSome(Get(callInput).content)
                       THEN toLowerCase(Get(Get(callInput).content)) ELSE <<>>
            Hit(e)  == \E k \in 1..Len(GenreKeywords[e].keywords) :
                          \/ includes(title, GenreKeywords[e].keywords[k])
                          \/ includes(content, GenreKeywords[e].keywords[k])
            Pos(g)  == CHOOSE e \in 1..Len(GenreKeywords) : GenreKeywords[e].genre = g
            Result  == {out[i] : i \in 1..Len(out)}
        IN  /\ Len(out) >= 1
            /\ \A i, j \in 1..Len(out) : i # j => out[i] # out[j]
            /\ \A e \in 1..Len(GenreKeywords) : (GenreKeywords[e].genre \in Result) <=> Hit(e)
            /\ (out = <<"general">>) <=> (\A e \in 1..Len(GenreKeywords) : ~Hit(e))
            /\ "general" \in Result => out = <<"general">>
            /\ out # <<"general">> =>
                  \A i, j \in 1..Len(out) : i < j => Pos(out[i]) < Pos(out[j])

(* C19 witness: a title and a content that hit three genres between them, one of
   them through upper-case letters *)
C19_Witness ==
    /\ IsSome(callInput) /\ Get(callInput).fn = "detectGenre"
    /\ IsSome(callOutput)
    /\ Get(callOutput) = <<"finance", "fiction", "scifi">>

(* C20: detectGenre("The Intelligent Investor") with no content returns a list
   that contains "finance". *)
C20_IntelligentInvestorIsFinance ==
    ( /\ IsSome(callInput) /\ Get(callInput).fn = "detectGenre"
      /\ Get(callInput).title = IntelligentInvestor
      /\ Get(callInput).content = None
      /\ IsSome(callOutput) ) =>
        \E i \in 1..Len(Get(callOutput)) : Get(callOutput)[i] = "finance"

(* C21: extractAuthorFromFilename returns the author part: "Tony Robbins" for
   "Tony Robbins - Awaken the Giant Within.txt", "James Clear" for
   "Atomic Habits by James Clear.txt", and no author for a file name that
   matches neither the hyphen pattern nor the by pattern. *)
C21_ExtractAuthor ==
    ( /\ IsSome(callInput) /\ Get(callInput).fn = "extractAuthorFromFilename"
      /\ IsSome(callOutput) ) =>
        LET filename == Get(callInput).filename
            author   == Get(callOutput)
        IN  /\ filename = TonyRobbinsFile =>
                  author = Some(<<"T", "o", "n", "y", " ", "R", "o", "b", "b", "i", "n", "s">>)
            /\ filename = AtomicHabitsFile =>
                  author = Some(<<"J", "a", "m", "e", "s", " ", "C", "l", "e", "a", "r">>)
            /\ ( /\ ~IsSome(RegExpMatch(filename, <<"-">>, FALSE))
                 /\ ~IsSome(RegExpMatch(filename, <<"b", "y">>, TRUE)) ) => author = None

(* C22: the top genres of getRecommendations are the three (or fewer) genres of
   largest occurrence count over all books' genreTags, in descending order of
   count, and two catalog genres of equal count stand in the declaration order
   of the catalog (finance, business, fiction, technical), whatever the order
   in which they first occur in the library. *)
C22_TopGenresTiesByCatalogOrder ==
    [][ GetRecommendations =>
          LET out      == Get(callOutput').topGenres
              rows     == getAllBooks.value
              Tags     == UNION {{b.genreTags[i] : i \in 1..Len(b.genreTags)} : b \in rows}
              Count(g) == LET Occ(b) == Cardinality({i \in 1..Len(b.genreTags) : b.genreTags[i] = g})
                              RECURSIVE Sum(_)
                              Sum(S) == IF S = {} THEN 0
                                        ELSE LET b == CHOOSE x \in S : TRUE
                                             IN  Occ(b) + Sum(S \ {b})
                          IN  Sum(rows)
          IN  /\ Len(out) = (IF Cardinality(Tags) < 3 THEN Cardinality(Tags) ELSE 3)
              /\ \A i \in 1..Len(out) : out[i] \in Tags
              /\ \A i, j \in 1..Len(out) : i < j => out[i] # out[j] /\ Count(out[i]) >= Count(out[j])
              /\ \A g \in Tags : \A i \in 1..Len(out) :
                    g \notin {out[k] : k \in 1..Len(out)} => Count(g) <= Count(out[i])
              /\ \A i, j \in 1..Len(out) :
                    ( /\ i < j
                      /\ Count(out[i]) = Count(out[j])
                      /\ CatalogPosition(out[i]) <= Len(bookDatabase)
                      /\ CatalogPosition(out[j]) <= Len(bookDatabase) ) =>
                        CatalogPosition(out[i]) < CatalogPosition(out[j])
      ]_vars

(* C23: every askAI request that succeeded adds exactly one entry to the chat
   history, for the book it was asked about; a request that was refused or that
   failed adds none, and an entry is added only once the request's outcome is
   known; entries are removed only by clearChatHistory(bookId), which removes
   all the entries of that book and no other. *)
C23_ChatHistoryAppendOnly ==
    [][ /\ \A c \in Callers :
              (AskAISave(c) /\ Get(askCalls[c].result).success) =>
                  /\ Cardinality(chatHistory') = Cardinality(chatHistory) + 1
                  /\ chatHistory \subseteq chatHistory'
                  /\ \A r \in chatHistory' \ chatHistory : r.bookId = askCalls[c].bookId
        /\ \A c \in Callers :
              (AskAISave(c) /\ ~Get(askCalls[c].result).success) =>
                  chatHistory' = chatHistory
        /\ (chatHistory' \ chatHistory # {}) =>
              \E c \in Callers :
                  /\ AskAISave(c)
                  /\ IsSome(askCalls[c].result) /\ Get(askCalls[c].result).success
        /\ (chatHistory \ chatHistory' # {}) =>
              \E bookId \in BookIds : ClearChatHistory(bookId)
        /\ \A bookId \in BookIds :
              ClearChatHistory(bookId) =>
                  /\ \A r \in chatHistory : r.bookId = bookId => r \notin chatHistory'
                  /\ \A r \in chatHistory : r.bookId # bookId => r \in chatHistory'
      ]_vars

(* C24: whatever the interleaving of upgradeSubscription and cancelSubscription
   calls after init(), the stored subscription's price, booksPerMonth, hasAI and
   hasNaturalTTS are those of the catalog entry of its stored tier, so that
   canAccessFeature(tier, ...) agrees with the stored hasAI, hasNaturalTTS and
   booksPerMonth > 0. *)
C24_StoredTierIsConsistent ==
    /\ ~getUserSubscription.threw
    /\ IsSome(getUserSubscription.value)
    /\ LET stored == Get(getUserSubscription.value)
           tier   == getTierByName(stored.tier)
       IN  /\ IsSome(tier)
           /\ stored.price = Get(tier).price
           /\ stored.booksPerMonth = Get(tier).booksPerMonth
           /\ stored.hasAI = Get(tier).hasAI
           /\ stored.hasNaturalTTS = Get(tier).hasNaturalTTS
           /\ canAccessFeature(stored.tier, "ai") = stored.hasAI
           /\ canAccessFeature(stored.tier, "naturalTTS") = stored.hasNaturalTTS
           /\ canAccessFeature(stored.tier, "freeBooks") = (stored.booksPerMonth > 0)

(* C24 witness: a cancel has read the basic record and not yet written, and the
   second caller's upgrade to pro, begun and finished meanwhile, is what is stored *)
C24_Witness ==
    /\ updPc = "read" /\ upd2Pc = "idle"
    /\ Get(updPartial).tier = "free"
    /\ IsSome(updCurrent) /\ Get(updCurrent).tier = "basic"
    /\ Get(getUserSubscription.value).tier = "pro"
    /\ Get(getUserSubscription.value).hasAI

(* C25: whenever upgradeSubscription(tier) or cancelSubscription() returns true,
   a getUserSubscription() that follows returns a record with the requested
   tier, also when the call was made while init() had opened the database and
   not yet seeded the subscription row. *)
C25_TrueOnlyIfReplaced ==
    [][ UpdateSubscriptionWrite =>
          LET requested == Get(updPartial).tier
              following == getUserSubscription'
          IN  /\ ~following.threw
              /\ IsSome(following.value)
              /\ Get(following.value).tier = requested
      ]_vars

(* C26: after init(), an upgradeSubscription(tier) followed by
   cancelSubscription() leaves a stored subscription equal to the free-tier
   record seeded by init() in tier, price, features, booksPerMonth, hasAI,
   hasNaturalTTS and expiresAt. *)
C26_UpgradeCancelRoundTrip ==
    [][ ( /\ UpdateSubscriptionWrite
          /\ Get(updPartial) = CancelPartial
          /\ IsSome(updCurrent) /\ Get(updCurrent).tier \in PaidTierIds ) =>
          LET seeded == DecodeSubscription(DefaultSubscriptionRow(0))
              stored == Get(getUserSubscription.value')
          IN  /\ stored.tier = seeded.tier
              /\ stored.price = seeded.price
              /\ stored.features = seeded.features
              /\ stored.booksPerMonth = seeded.booksPerMonth
              /\ stored.hasAI = seeded.hasAI
              /\ stored.hasNaturalTTS = seeded.hasNaturalTTS
              /\ stored.expiresAt = seeded.expiresAt
      ]_vars

(* C27: once the clock is past the expiresAt of the subscription a call has
   read, askQuestion returns the subscription-required failure and speak with
   useNaturalVoice = true fails with the subscription-required error. *)
C27_EntitlementEndsAtExpiry ==
    [][ /\ ( /\ AskQuestionCheck
             /\ IsSome(aiSub) /\ IsSome(Get(aiSub).expiresAt)
             /\ now > Get(Get(aiSub).expiresAt) ) =>
                aiResult' = Some(AIFailure(AISubscriptionRequired))
        /\ ( /\ SpeakCheck
             /\ ttsNatural
             /\ IsSome(ttsSub) /\ IsSome(Get(ttsSub).expiresAt)
             /\ now > Get(Get(ttsSub).expiresAt) ) =>
                ttsResult' = Some(TTSOutcome(TRUE, Some(TTSSubscriptionRequired)))
      ]_vars

(* C28: a book that is opened in the reader, is not completed and has one page
   or more (a single page included) has markBookCompleted invoked for it
   eventually, when the reader keeps using the forward navigation. *)
C28_ReadingCompletesTheBook ==
    ( /\ rdrPc = "ready" /\ IsSome(rdrBook)
      /\ ~Get(rdrBook).isCompleted
      /\ totalPages >= 1 ) ~> (markCalls >= 1)

(* C29: off the web, whenever no stop is in progress, getIsSpeaking() is true
   exactly when an utterance handed over by speak() is being spoken; so it is
   false once stop() has completed and after a speak() that failed only if
   nothing is spoken, and a callback of an utterance that is over never clears
   it while another utterance is spoken. *)
C29_IsSpeakingWhileSpoken ==
    (platform # "web" /\ stopPc = "idle" /\ ttsPc # "stopping") =>
        (getIsSpeaking <=> (engine # <<>> /\ engine[1].started))

(* C30: isReady is true only once db.init() has resolved, error is set only
   once db.init() has rejected, and the two are never both set; isReady never
   goes back to false; and once the provider has unmounted, neither isReady nor
   error changes, whatever init() does afterwards. *)
C30_ProviderStates ==
    /\ [] /\ isReady => (initCompleted /\ InitIdle)
          /\ IsSome(error) => (~initCompleted /\ InitIdle /\ provPc = "settled")
          /\ ~(isReady /\ IsSome(error))
    /\ [][ /\ isReady => isReady'
           /\ (provPc # "new" /\ ~mounted) => (isReady' = isReady /\ error' = error)
         ]_vars

(* C30 witness: init() has resolved after the provider unmounted, and isReady
   is still false *)
C30_Witness ==
    /\ provPc = "settled" /\ ~mounted
    /\ initCompleted
    /\ ~isReady /\ error = None

====
